---- MODULE Spec2Model ----
(***************************************************************************)
(* A model of the instant-paste relay (server.js, the second, current      *)
(* revision starting at line 296) and of the client's transfer engine and  *)
(* key exchange (client/src/utils/useWebSocket.ts).                        *)
(*                                                                         *)
(* The relay is a single-threaded event loop: every event (a socket is     *)
(* accepted, a frame arrives, a pong arrives, a socket closes, the         *)
(* heartbeat timer fires, the idle sweep timer fires) runs one handler to  *)
(* completion.  Each handler is an operator from the relay state to the    *)
(* relay state; an action applies one handler.                             *)
(***************************************************************************)
EXTENDS Integers, Sequences, FiniteSets, TLC

\* ------------------------------------------------------------------ bounds
\* Connections ever accepted in one run.  The i-th accepted socket is i (the
\* code names it by a fresh UUID), so wss.clients in insertion order is the
\* live connections in index order.
NumConns == 3
\* Room ids that create can draw and join can name.
NumRoomIds == 2
\* Date.now() runs from 0 to MaxTime.
MaxTime == 2
\* File ids a client may put in a payload.
NumFileIds == 2
\* Messages counted past the budget in one window before the model stops
\* delivering more frames of that window.
MaxOver == 1
\* CONFIG.MAX_ROOM_SIZE (10 in server.js:311), scaled so that a full room is
\* reachable with NumConns connections.
MAX_ROOM_SIZE == 2
\* CONFIG.MESSAGE_RATE_LIMIT (100 in server.js:317), scaled.
MESSAGE_RATE_LIMIT == 3
\* CONFIG.RATE_LIMIT_WINDOW (1000 ms in server.js:318), in clock units.
RATE_LIMIT_WINDOW == 1
\* CONFIG.MAX_ROOM_INACTIVITY (3600000 ms in server.js:312), in clock units.
MAX_ROOM_INACTIVITY == 1

\* ------------------------------------------------------- program constants
ROOM_ID_LENGTH == 6
MAX_FILE_SIZE == 1073741824
MAX_FILENAME_LENGTH == 255

Conns == 1..NumConns
NoConn == 0
NoRoom == <<>>
NoKey == "undefined"
NoFile == ""

\* ----------------------------------------------------------------- helpers
Range(s) == {s[i] : i \in DOMAIN s}
MapSet(f, k, v) == [x \in DOMAIN f \cup {k} |-> IF x = k THEN v ELSE f[x]]
MapDel(f, k) == [x \in DOMAIN f \ {k} |-> f[x]]
EmptyMap == [x \in {} |-> x]
\* Set.add / Set.delete on an insertion-ordered Set
SetAdd(s, x) == IF x \in Range(s) THEN s ELSE Append(s, x)
SetDelete(s, x) == SelectSeq(s, LAMBDA y : y # x)

\* ---------------------------------------------------------------- room ids
DigitChars == <<"0", "1", "2", "3", "4", "5", "6", "7", "8", "9">>
LowerChars == <<"a", "b", "c", "d", "e", "f", "g", "h", "i", "j", "k", "l", "m",
                "n", "o", "p", "q", "r", "s", "t", "u", "v", "w", "x", "y", "z">>
UpperChars == <<"A", "B", "C", "D", "E", "F", "G", "H", "I", "J", "K", "L", "M",
                "N", "O", "P", "Q", "R", "S", "T", "U", "V", "W", "X", "Y", "Z">>

\* /[A-Za-z0-9]/
IsAlnum(ch) == ch \in Range(DigitChars) \cup Range(LowerChars) \cup Range(UpperChars)

toUpperCaseChar(ch) ==
    IF ch \in Range(LowerChars)
    THEN UpperChars[CHOOSE i \in DOMAIN LowerChars : LowerChars[i] = ch]
    ELSE ch

\* A relay that keeps the id as the client wrote it.
toUpperCase_identity(s) == s

\* String.prototype.toUpperCase on a string given as its characters
toUpperCase(s) == [i \in DOMAIN s |-> toUpperCaseChar(s[i])]

\* The ids generateRoomId can return: six upper-case hex digits of a UUID.
RoomIdOf(i) == <<"A", "B", "1", "2", "C", DigitChars[i + 1]>>
LowerRoomIdOf(i) == <<"a", "b", "1", "2", "c", DigitChars[i + 1]>>
GenRoomIds == {RoomIdOf(i) : i \in 1..NumRoomIds}

\* What a client may write in the roomId field of a join: a valid id in
\* either case, nothing, a short id, an id with a character outside the class.
JoinRoomIds ==
    GenRoomIds \cup {LowerRoomIdOf(i) : i \in 1..NumRoomIds}
    \cup {<<>>, <<"a", "b", "1">>, <<"a", "b", "1", "2", "c", "!">>}

validateRoomId(roomId) ==
    IF roomId = <<>> THEN "ROOM_ID_REQUIRED"
    ELSE IF Len(roomId) # ROOM_ID_LENGTH \/ \E i \in DOMAIN roomId : ~IsAlnum(roomId[i])
         THEN "INVALID_ROOM_ID"
    ELSE "OK"

\* ------------------------------------------------------------ relay state
VARIABLES
    rooms,            \* Map roomId -> {clients, lastActivity, activeTransfers}
    ws,               \* the sockets: readyState, isAlive, roomId
    messageCounters,  \* Map ws.id -> {count, resetTime}
    metrics,          \* metrics: activeConnections
    now,              \* Date.now()
    out,              \* what the last handler wrote to the sockets, in order
    last              \* the last event handled, its outcome and what it did to rooms

relayVars == <<rooms, ws, messageCounters, metrics, now, out, last>>

\* Observers of the relay (they record what happened, the handlers never read them)
VARIABLES
    tally,        \* per room id: joins and leaves since the room object was created
    pending,      \* per socket: the transfers it announced to its room and has not finished
    interrupted,  \* at a close event: the transfers the closing socket had pending
    window        \* per socket: start of its current rate window and frames seen in it

ghostVars == <<tally, pending, interrupted, window>>

\* The state a handler works on: the relay's maps, the writes so far (out),
\* the room mutations so far (ev) and the outcome (res).
State == [rooms |-> rooms, ws |-> ws, messageCounters |-> messageCounters,
          metrics |-> metrics, out |-> <<>>, ev |-> <<>>, res |-> "none"]

NewSocket == [readyState |-> "NONE", isAlive |-> FALSE, roomId |-> NoRoom, destroyed |-> FALSE]

HasClient(room, c) == \E i \in DOMAIN room.clients : room.clients[i].ws = c
\* room.clients.set(ws.id, {ws, publicKey})
clientsSet(clients, c, publicKey) ==
    IF \E i \in DOMAIN clients : clients[i].ws = c
    THEN [i \in DOMAIN clients |->
            IF clients[i].ws = c THEN [ws |-> c, publicKey |-> publicKey] ELSE clients[i]]
    ELSE Append(clients, [ws |-> c, publicKey |-> publicKey])
\* A roster that keeps the entry of a socket that leaves.
clientsDelete_kept(clients, c) == clients

\* room.clients.delete(ws.id)
clientsDelete(clients, c) == SelectSeq(clients, LAMBDA e : e.ws # c)
\* Array.from(room.clients.values()).map(c => ({id: c.ws.id, publicKey: c.publicKey}))
clientsInRoom(room) ==
    [i \in DOMAIN room.clients |->
        [id |-> room.clients[i].ws, publicKey |-> room.clients[i].publicKey]]
Members(room) == {room.clients[i].ws : i \in DOMAIN room.clients}

sendMessage(S, c, data) ==
    IF S.ws[c].readyState = "OPEN"
    THEN [S EXCEPT !.out = Append(@, [op |-> "send", to |-> c, msg |-> data])]
    ELSE S

\* An error report that goes to the whole room of the socket.
sendError_toRoom(S, c, code) ==
    IF S.ws[c].roomId # NoRoom /\ S.ws[c].roomId \in DOMAIN S.rooms
    THEN LET to == SelectSeq(S.rooms[S.ws[c].roomId].clients,
                             LAMBDA e : S.ws[e.ws].readyState = "OPEN")
         IN  [S EXCEPT !.out = @ \o [i \in DOMAIN to |->
                                        [op |-> "send", to |-> to[i].ws,
                                         msg |-> [type |-> "error", code |-> code]]]]
    ELSE sendMessage(S, c, [type |-> "error", code |-> code])

sendError(S, c, code) == sendMessage(S, c, [type |-> "error", code |-> code])

\* A fan-out that ignores excludeWs.
broadcastToRoom_noExclude(S, roomId, data, excludeWs) ==
    IF roomId \notin DOMAIN S.rooms THEN S
    ELSE LET to == SelectSeq(S.rooms[roomId].clients,
                             LAMBDA e : S.ws[e.ws].readyState = "OPEN")
         IN  [S EXCEPT !.out = @ \o [i \in DOMAIN to |->
                                        [op |-> "send", to |-> to[i].ws, msg |-> data]]]

broadcastToRoom(S, roomId, data, excludeWs) ==
    IF roomId \notin DOMAIN S.rooms THEN S
    ELSE LET to == SelectSeq(S.rooms[roomId].clients,
                             LAMBDA e : e.ws # excludeWs /\ S.ws[e.ws].readyState = "OPEN")
         IN  [S EXCEPT !.out = @ \o [i \in DOMAIN to |->
                                        [op |-> "send", to |-> to[i].ws, msg |-> data]]]

\* A room-update whose clientCount does not count the newest member.
roomUpdate_noCount(S, roomId) ==
    [type |-> "room-update", roomId |-> roomId,
     clients |-> clientsInRoom(S.rooms[roomId]),
     clientCount |-> Len(S.rooms[roomId].clients) - 1]

roomUpdate(S, roomId) ==
    [type |-> "room-update", roomId |-> roomId,
     clients |-> clientsInRoom(S.rooms[roomId]),
     clientCount |-> Len(S.rooms[roomId].clients)]

NewRoom == [clients |-> <<>>, lastActivity |-> now, activeTransfers |-> EmptyMap]


\* ---------------------------------------------------------------- handlers
RECURSIVE cancelTransfers(_, _, _, _)
\* fileIds.forEach(fileId => broadcastToRoom(roomId, {type: 'file-cancel', ...}))
cancelTransfers(S, roomId, fileIds, c) ==
    IF fileIds = <<>> THEN S
    ELSE cancelTransfers(
            broadcastToRoom(S, roomId,
                [type |-> "file-cancel", fileId |-> Head(fileIds), senderId |-> c], NoConn),
            roomId, Tail(fileIds), c)

\* A leave that keeps the emptied room in the table.
deleteRoom_forgotten(S, roomId, c) == S

\* rooms.delete(roomId) when the last member has left
deleteRoom(S, roomId, c) ==
    [S EXCEPT !.rooms = MapDel(@, roomId),
              !.ev = Append(@, [e |-> "delete", room |-> roomId, ws |-> c])]

\* A leave that announces the new roster before it cancels the transfers.
handleLeave_updateFirst(S, c) ==
    IF S.ws[c].roomId = NoRoom \/ S.ws[c].roomId \notin DOMAIN S.rooms THEN S
    ELSE
    LET roomId == S.ws[c].roomId IN
    IF ~HasClient(S.rooms[roomId], c) THEN S
    ELSE
    LET S1 == [S EXCEPT !.rooms[roomId].clients = clientsDelete(@, c),
                        !.rooms[roomId].lastActivity = now,
                        !.ev = Append(@, [e |-> "leave", room |-> roomId, ws |-> c])]
        S2 == IF Len(S1.rooms[roomId].clients) = 0
              THEN S1
              ELSE broadcastToRoom(S1, roomId, roomUpdate(S1, roomId), NoConn)
        S3 == IF c \in DOMAIN S2.rooms[roomId].activeTransfers
              THEN [cancelTransfers(S2, roomId, S2.rooms[roomId].activeTransfers[c], c)
                        EXCEPT !.rooms[roomId].activeTransfers = MapDel(@, c)]
              ELSE S2
        S4 == IF Len(S3.rooms[roomId].clients) = 0 THEN deleteRoom(S3, roomId, c) ELSE S3
    IN  [S4 EXCEPT !.ws[c].roomId = NoRoom]

handleLeave(S, c) ==
    IF S.ws[c].roomId = NoRoom \/ S.ws[c].roomId \notin DOMAIN S.rooms THEN S
    ELSE
    LET roomId == S.ws[c].roomId IN
    IF ~HasClient(S.rooms[roomId], c) THEN S
    ELSE
    LET S1 == [S EXCEPT !.rooms[roomId].clients = clientsDelete(@, c),
                        !.rooms[roomId].lastActivity = now,
                        !.ev = Append(@, [e |-> "leave", room |-> roomId, ws |-> c])]
        S2 == IF c \in DOMAIN S1.rooms[roomId].activeTransfers
              THEN [cancelTransfers(S1, roomId, S1.rooms[roomId].activeTransfers[c], c)
                        EXCEPT !.rooms[roomId].activeTransfers = MapDel(@, c)]
              ELSE S1
        S3 == IF Len(S2.rooms[roomId].clients) = 0
              THEN deleteRoom(S2, roomId, c)
              ELSE broadcastToRoom(S2, roomId, roomUpdate(S2, roomId), NoConn)
    IN  [S3 EXCEPT !.ws[c].roomId = NoRoom]

\* A size check that lets one member more in.
roomIsFull_above(room) == Len(room.clients) > MAX_ROOM_SIZE

\* room.clients.size >= CONFIG.MAX_ROOM_SIZE
roomIsFull(room) == Len(room.clients) >= MAX_ROOM_SIZE

\* A join that does not leave the room the socket is in.
handleJoin_noLeave(S, c, rawRoomId, publicKey) ==
    LET validation == validateRoomId(rawRoomId) IN
    IF validation # "OK" THEN [sendError(S, c, validation) EXCEPT !.res = validation]
    ELSE
    LET roomId == toUpperCase(rawRoomId)
        S2 == IF roomId \notin DOMAIN S.rooms
              THEN [S EXCEPT !.rooms = MapSet(@, roomId, NewRoom),
                             !.ev = Append(@, [e |-> "create", room |-> roomId, ws |-> c])]
              ELSE S
    IN
    IF roomIsFull(S2.rooms[roomId])
    THEN [sendError(S2, c, "ROOM_FULL") EXCEPT !.res = "ROOM_FULL"]
    ELSE
    LET S3 == [S2 EXCEPT !.ws[c].roomId = roomId,
                         !.rooms[roomId].clients = clientsSet(@, c, publicKey),
                         !.rooms[roomId].lastActivity = now,
                         !.ev = Append(@, [e |-> "join", room |-> roomId, ws |-> c])]
    IN  [broadcastToRoom(S3, roomId, roomUpdate(S3, roomId), NoConn) EXCEPT !.res = "joined"]

handleJoin(S, c, rawRoomId, publicKey) ==
    LET validation == validateRoomId(rawRoomId) IN
    IF validation # "OK" THEN [sendError(S, c, validation) EXCEPT !.res = validation]
    ELSE
    LET roomId == toUpperCase(rawRoomId)
        S1 == IF S.ws[c].roomId # NoRoom THEN handleLeave(S, c) ELSE S
        S2 == IF roomId \notin DOMAIN S1.rooms
              THEN [S1 EXCEPT !.rooms = MapSet(@, roomId, NewRoom),
                              !.ev = Append(@, [e |-> "create", room |-> roomId, ws |-> c])]
              ELSE S1
    IN
    IF roomIsFull(S2.rooms[roomId])
    THEN [sendError(S2, c, "ROOM_FULL") EXCEPT !.res = "ROOM_FULL"]
    ELSE
    LET S3 == [S2 EXCEPT !.ws[c].roomId = roomId,
                         !.rooms[roomId].clients = clientsSet(@, c, publicKey),
                         !.rooms[roomId].lastActivity = now,
                         !.ev = Append(@, [e |-> "join", room |-> roomId, ws |-> c])]
    IN  [broadcastToRoom(S3, roomId, roomUpdate(S3, roomId), NoConn) EXCEPT !.res = "joined"]

\* The ids the do-while of generateRoomId can end on in state S.
generateRoomId(S) == GenRoomIds \ DOMAIN S.rooms

\* handleCreate, with the id generateRoomId returned (roomId \in generateRoomId
\* of the state after the leave).
handleCreate(S, c, publicKey, roomId) ==
    LET S1 == IF S.ws[c].roomId # NoRoom THEN handleLeave(S, c) ELSE S
        S2 == [S1 EXCEPT !.rooms = MapSet(@, roomId,
                                      [NewRoom EXCEPT !.clients =
                                            clientsSet(<<>>, c, publicKey)]),
                         !.ws[c].roomId = roomId,
                         !.ev = @ \o <<[e |-> "create", room |-> roomId, ws |-> c],
                                       [e |-> "join", room |-> roomId, ws |-> c]>>]
        update == [type |-> "room-update", roomId |-> roomId,
                   clients |-> clientsInRoom(S2.rooms[roomId]),
                   clientId |-> c,
                   clientCount |-> Len(S2.rooms[roomId].clients)]
        S3 == sendMessage(S2, c, update)
        S4 == sendMessage(S3, c, [type |-> "reload"])
    IN  [S4 EXCEPT !.res = "created"]

\* {...data, senderId: ws.id, timestamp: Date.now()}
Stamp(data, c, withTime) ==
    LET keys == DOMAIN data \cup {"senderId"} \cup (IF withTime THEN {"timestamp"} ELSE {})
    IN  [k \in keys |-> IF k = "senderId" THEN c
                        ELSE IF k = "timestamp" /\ withTime THEN now
                        ELSE data[k]]

Field(data, k, default) == IF k \in DOMAIN data THEN data[k] ELSE default

\* room.activeTransfers.get(ws.id).add(fileId), creating the Set when missing
track(S, roomId, c, fileId) ==
    LET at == S.rooms[roomId].activeTransfers
        cur == IF c \in DOMAIN at THEN at[c] ELSE <<>>
    IN  [S EXCEPT !.rooms[roomId].activeTransfers = MapSet(at, c, SetAdd(cur, fileId))]

\* A relay that keeps the text of a clipboard message in the room.
handleClipboard_kept(S, c, data) ==
    IF S.ws[c].roomId = NoRoom
    THEN [sendError(S, c, "NOT_IN_ROOM") EXCEPT !.res = "NOT_IN_ROOM"]
    ELSE
    LET roomId == S.ws[c].roomId IN
    IF roomId \notin DOMAIN S.rooms THEN [S EXCEPT !.res = "no-room"]
    ELSE
    LET S1 == [S EXCEPT !.rooms[roomId].lastActivity = now]
        S2 == IF Field(data, "fileId", NoFile) # NoFile
              THEN track(S1, roomId, c, data.fileId)
              ELSE track(S1, roomId, c, data.content)
    IN  [broadcastToRoom(S2, roomId, Stamp(data, c, TRUE), c) EXCEPT !.res = "relayed"]

handleClipboard(S, c, data) ==
    IF S.ws[c].roomId = NoRoom
    THEN [sendError(S, c, "NOT_IN_ROOM") EXCEPT !.res = "NOT_IN_ROOM"]
    ELSE
    LET roomId == S.ws[c].roomId IN
    IF roomId \notin DOMAIN S.rooms THEN [S EXCEPT !.res = "no-room"]
    ELSE
    LET S1 == [S EXCEPT !.rooms[roomId].lastActivity = now]
        S2 == IF Field(data, "fileId", NoFile) # NoFile
              THEN track(S1, roomId, c, data.fileId)
              ELSE S1
    IN  [broadcastToRoom(S2, roomId, Stamp(data, c, TRUE), c) EXCEPT !.res = "relayed"]

validateFileChunk(data) ==
    IF Field(data, "fileId", NoFile) = NoFile THEN "INVALID_FILE_ID"
    ELSE IF "chunkIndex" \notin DOMAIN data \/ "totalChunks" \notin DOMAIN data
         THEN "INVALID_MESSAGE"
    ELSE IF data.chunkIndex < 0 \/ data.chunkIndex >= data.totalChunks
         THEN "INVALID_MESSAGE"
    ELSE "OK"

handleFileChunk(S, c, data) ==
    IF S.ws[c].roomId = NoRoom
    THEN [sendError(S, c, "NOT_IN_ROOM") EXCEPT !.res = "NOT_IN_ROOM"]
    ELSE
    LET validation == validateFileChunk(data) IN
    IF validation # "OK" THEN [sendError(S, c, validation) EXCEPT !.res = validation]
    ELSE
    LET roomId == S.ws[c].roomId IN
    IF roomId \notin DOMAIN S.rooms THEN [S EXCEPT !.res = "no-room"]
    ELSE
    LET S1 == [S EXCEPT !.rooms[roomId].lastActivity = now]
        at == S1.rooms[roomId].activeTransfers
        S2 == IF data.chunkIndex = data.totalChunks - 1 /\ c \in DOMAIN at
              THEN LET rest == SetDelete(at[c], data.fileId)
                   IN  [S1 EXCEPT !.rooms[roomId].activeTransfers =
                            IF rest = <<>> THEN MapDel(at, c) ELSE MapSet(at, c, rest)]
              ELSE S1
    IN  [broadcastToRoom(S2, roomId, Stamp(data, c, FALSE), c) EXCEPT !.res = "relayed"]

validateFileStart(data) ==
    IF Field(data, "fileId", NoFile) = NoFile THEN "INVALID_FILE_ID"
    ELSE IF Field(data, "fileSize", 0) > MAX_FILE_SIZE THEN "FILE_TOO_LARGE"
    ELSE IF Len(Field(data, "fileName", <<>>)) > MAX_FILENAME_LENGTH THEN "INVALID_FILENAME"
    ELSE "OK"

handleFileStart(S, c, data) ==
    IF S.ws[c].roomId = NoRoom
    THEN [sendError(S, c, "NOT_IN_ROOM") EXCEPT !.res = "NOT_IN_ROOM"]
    ELSE
    LET validation == validateFileStart(data) IN
    IF validation # "OK" THEN [sendError(S, c, validation) EXCEPT !.res = validation]
    ELSE
    LET roomId == S.ws[c].roomId IN
    IF roomId \notin DOMAIN S.rooms THEN [S EXCEPT !.res = "no-room"]
    ELSE
    LET S1 == [S EXCEPT !.rooms[roomId].lastActivity = now]
        S2 == track(S1, roomId, c, data.fileId)
    IN  [broadcastToRoom(S2, roomId, Stamp(data, c, TRUE), c) EXCEPT !.res = "relayed"]


\* -------------------------------------------------------------- rate limit
\* A limiter that rejects from the budget-th frame on.
checkRateLimit_inclusive(S, c) ==
    LET mc == S.messageCounters
        counter == IF c \notin DOMAIN mc \/ now > mc[c].resetTime
                   THEN [count |-> 0, resetTime |-> now + RATE_LIMIT_WINDOW]
                   ELSE mc[c]
        counted == [counter EXCEPT !.count = @ + 1]
    IN  [S |-> [S EXCEPT !.messageCounters = MapSet(mc, c, counted)],
         ok |-> ~(counted.count >= MESSAGE_RATE_LIMIT)]

\* checkRateLimit: the counters after the call and what it returned
checkRateLimit(S, c) ==
    LET mc == S.messageCounters
        counter == IF c \notin DOMAIN mc \/ now > mc[c].resetTime
                   THEN [count |-> 0, resetTime |-> now + RATE_LIMIT_WINDOW]
                   ELSE mc[c]
        counted == [counter EXCEPT !.count = @ + 1]
    IN  [S |-> [S EXCEPT !.messageCounters = MapSet(mc, c, counted)],
         ok |-> ~(counted.count > MESSAGE_RATE_LIMIT)]

cleanupClient(S, c) == [S EXCEPT !.messageCounters = MapDel(@, c)]

\* ------------------------------------------------------------------ frames
FileIdNames == <<"f1", "f2", "f3", "f4", "f5">>
FileIds == {FileIdNames[i] : i \in 1..NumFileIds}
NumChunks == 3
ShortName == <<"a", ".", "t", "x", "t">>
LongName == [i \in 1..(MAX_FILENAME_LENGTH + 1) |-> "a"]

\* The public key a client puts in its create and join frames: the one of its
\* browser profile, or none when E2EE is off (every second client here).
KeyNames == <<"jwk1", NoKey, "jwk3", NoKey, "jwk5", NoKey>>
PublicKeyOf(c) == KeyNames[c]

\* A frame that JSON.parse rejects
Malformed == [type |-> "?", malformed |-> TRUE]

JoinFrames(c) == {[type |-> "join", roomId |-> r, publicKey |-> PublicKeyOf(c)] :
                    r \in JoinRoomIds}
CreateFrames(c) == {[type |-> "create", publicKey |-> PublicKeyOf(c)]}
LeaveFrames == {[type |-> "leave"]}
TextFrames == {[type |-> "clipboard", contentType |-> "text", content |-> "hello"]}
AnnounceFrames(t) ==
    {[type |-> t, contentType |-> "file", fileId |-> f, fileName |-> n,
      fileSize |-> z, totalChunks |-> NumChunks] :
        f \in FileIds \cup {NoFile}, n \in {ShortName, LongName},
        z \in {NumChunks, MAX_FILE_SIZE + 1}}
ChunkFrames == {[type |-> "file-chunk", fileId |-> f, chunkIndex |-> i,
                 totalChunks |-> NumChunks, chunk |-> "QQ=="] :
                    f \in FileIds \cup {NoFile}, i \in (-1)..NumChunks}
\* Frames in which the client has filled in the fields the relay stamps
ForgedSenderId == NumConns + 1
ForgedTimestamp == MaxTime + 1
ForgedFrames(t) ==
    IF t = "clipboard"
    THEN {[type |-> t, contentType |-> "text", content |-> "hello",
           senderId |-> ForgedSenderId, timestamp |-> ForgedTimestamp]}
    ELSE {[type |-> t, fileId |-> FileIdNames[1], chunkIndex |-> 0,
           totalChunks |-> NumChunks, chunk |-> "QQ==",
           senderId |-> ForgedSenderId, timestamp |-> ForgedTimestamp]}
InvalidFrames == {Malformed, [type |-> ""], [type |-> "bogus"]}

\* ------------------------------------------------------------ socket events
\* ws.on('message')
onMessage(S, c, frame) ==
    LET rl == checkRateLimit(S, c) IN
    IF ~rl.ok THEN [sendError(rl.S, c, "RATE_LIMITED") EXCEPT !.res = "RATE_LIMITED"]
    ELSE
    LET S1 == rl.S IN
    IF "malformed" \in DOMAIN frame
    THEN [sendError(S1, c, "INVALID_MESSAGE") EXCEPT !.res = "INVALID_MESSAGE"]
    ELSE IF frame.type = ""
    THEN [sendError(S1, c, "INVALID_MESSAGE") EXCEPT !.res = "INVALID_MESSAGE"]
    ELSE CASE frame.type = "join" -> handleJoin(S1, c, frame.roomId, frame.publicKey)
           [] frame.type = "leave" -> [handleLeave(S1, c) EXCEPT !.res = "left"]
           [] frame.type = "clipboard" -> handleClipboard(S1, c, frame)
           [] frame.type = "file-chunk" -> handleFileChunk(S1, c, frame)
           [] frame.type = "file-start" -> handleFileStart(S1, c, frame)
           [] OTHER -> [sendError(S1, c, "INVALID_MESSAGE") EXCEPT !.res = "INVALID_MESSAGE"]

\* ws.on('message') for a create frame, with the id generateRoomId returns
onCreate(S, c, frame, roomId) ==
    LET rl == checkRateLimit(S, c) IN
    IF ~rl.ok THEN [sendError(rl.S, c, "RATE_LIMITED") EXCEPT !.res = "RATE_LIMITED"]
    ELSE handleCreate(rl.S, c, frame.publicKey, roomId)

\* A close event that takes the socket off the roster without telling the room.
onClose_silent(S, c) ==
    LET roomId == S.ws[c].roomId
        S1 == IF roomId # NoRoom /\ roomId \in DOMAIN S.rooms
              THEN [S EXCEPT !.rooms[roomId].clients = clientsDelete(@, c),
                             !.ev = Append(@, [e |-> "leave", room |-> roomId, ws |-> c])]
              ELSE S
    IN  [cleanupClient(S1, c) EXCEPT !.ws[c] = [readyState |-> "CLOSED", isAlive |-> FALSE,
                                                roomId |-> NoRoom, destroyed |-> FALSE]]

ClosedSocket == [readyState |-> "CLOSED", isAlive |-> FALSE, roomId |-> NoRoom, destroyed |-> FALSE]

\* ws.on('close').  After the handler nothing refers to the socket object any
\* more (wss.clients drops it), so its fields are reset.
onClose(S, c) ==
    [handleLeave(cleanupClient([S EXCEPT !.ws[c].readyState = "CLOSED",
                                         !.metrics.activeConnections = @ - 1], c), c)
        EXCEPT !.ws[c] = ClosedSocket]

\* ws.terminate(): the socket is destroyed, its close event follows
terminate(S, c) ==
    [S EXCEPT !.ws[c].readyState = "CLOSING", !.ws[c].destroyed = TRUE,
              !.out = Append(@, [op |-> "terminate", to |-> c])]

\* ws.ping()
ping(S, c) ==
    IF S.ws[c].readyState = "OPEN"
    THEN [S EXCEPT !.out = Append(@, [op |-> "ping", to |-> c])]
    ELSE S

\* ws.close(): starts the closing handshake of an open socket
close(S, c) ==
    IF S.ws[c].readyState = "OPEN"
    THEN [S EXCEPT !.ws[c].readyState = "CLOSING",
                   !.out = Append(@, [op |-> "close", to |-> c])]
    ELSE S

\* wss.clients: the accepted sockets whose close event has not been handled
wssClients(S) ==
    SelectSeq([i \in 1..NumConns |-> i],
              LAMBDA c : S.ws[c].readyState \in {"OPEN", "CLOSING"})

RECURSIVE heartbeatEach(_, _)
heartbeatEach(S, cs) ==
    IF cs = <<>> THEN S
    ELSE LET c == Head(cs)
             S1 == IF S.ws[c].isAlive = FALSE
                   THEN terminate(handleLeave(cleanupClient(
                            [S EXCEPT !.metrics.activeConnections = @ - 1], c), c), c)
                   ELSE ping([S EXCEPT !.ws[c].isAlive = FALSE], c)
         IN  heartbeatEach(S1, Tail(cs))

\* A heartbeat that only probes: it pings the sockets that answered and leaves
\* the others alone.
heartbeat_probeOnly(S) ==
    heartbeatEach(S, SelectSeq(wssClients(S), LAMBDA c : S.ws[c].isAlive))

\* the heartbeatInterval callback
heartbeat(S) == heartbeatEach(S, wssClients(S))

\* A sweep that closes each socket before it writes the notice.
RECURSIVE closeClients_closeFirst(_, _)
closeClients_closeFirst(S, clients) ==
    IF clients = <<>> THEN S
    ELSE LET c == Head(clients).ws
         IN  closeClients_closeFirst(
                sendMessage(close(S, c), c, [type |-> "room-closed", reason |-> "inactivity"]),
                Tail(clients))

RECURSIVE closeClients(_, _)
\* room.clients.forEach(({ws: client}) => { sendMessage(client, room-closed); client.close() })
closeClients(S, clients) ==
    IF clients = <<>> THEN S
    ELSE LET c == Head(clients).ws
         IN  closeClients(
                close(sendMessage(S, c, [type |-> "room-closed", reason |-> "inactivity"]), c),
                Tail(clients))

IsInactive(room) == now - room.lastActivity > MAX_ROOM_INACTIVITY

RECURSIVE sweepRooms(_, _)
\* rooms.forEach over the ids of the table; the rooms are visited in the order
\* CHOOSE fixes (the rosters of two rooms visited are handled independently)
sweepRooms(S, ids) ==
    IF ids = {} THEN S
    ELSE LET roomId == CHOOSE r \in ids : TRUE
             S1 == IF IsInactive(S.rooms[roomId])
                   THEN [closeClients(S, S.rooms[roomId].clients)
                            EXCEPT !.rooms = MapDel(@, roomId),
                                   !.ev = Append(@, [e |-> "sweep", room |-> roomId,
                                                     ws |-> NoConn])]
                   ELSE S
         IN  sweepRooms(S1, ids \ {roomId})

\* the inactiveRoomCheckInterval callback
inactiveRoomCheck(S) == sweepRooms(S, DOMAIN S.rooms)

\* ----------------------------------------------------------------- actions
NoFrame == [type |-> "-"]
NoEvent == [op |-> "idle", ws |-> NoConn, frame |-> NoFrame, res |-> "none", ev |-> <<>>]
\* The event loop is idle: no handler has run since the last writes were flushed.
Idle == last = NoEvent

\* One handler runs to completion from the idle loop.
Commit(S, op, c, frame) ==
    /\ Idle
    /\ rooms' = S.rooms
    /\ ws' = S.ws
    /\ messageCounters' = S.messageCounters
    /\ metrics' = S.metrics
    /\ out' = S.out
    /\ last' = [op |-> op, ws |-> c, frame |-> frame, res |-> S.res, ev |-> S.ev]
    /\ UNCHANGED now

\* The handler has returned: its writes are on the wire and the loop is idle again.
Flush ==
    /\ ~Idle
    /\ out' = <<>>
    /\ last' = NoEvent
    /\ UNCHANGED <<rooms, ws, messageCounters, metrics, now>>

\* A frame can arrive on a socket that is open, or closing by close() (the
\* peer has not yet answered the close frame), but not on a destroyed one.
CanReceive(c) == ws[c].readyState \in {"OPEN", "CLOSING"} /\ ~ws[c].destroyed

\* The frames a client sends stay within over frames of the rate budget of
\* its current window.
Budget(c, over) ==
    /\ Idle
    /\ IF c \notin DOMAIN messageCounters THEN TRUE
       ELSE IF now > messageCounters[c].resetTime THEN TRUE
       ELSE messageCounters[c].count < MESSAGE_RATE_LIMIT + over

\* wss.on('connection')
Connect(c) ==
    /\ Idle
    /\ ws[c].readyState = "NONE"
    /\ \A d \in 1..(c - 1) : ws[d].readyState # "NONE"
    /\ Commit([State EXCEPT !.ws[c] = [readyState |-> "OPEN", isAlive |-> TRUE,
                                       roomId |-> NoRoom, destroyed |-> FALSE],
                            !.metrics.activeConnections = @ + 1,
                            !.res = "connected"],
              "connection", c, NoFrame)

OnMessage(c, frame) ==
    /\ Idle
    /\ CanReceive(c)
    /\ Commit(onMessage(State, c, frame), "message", c, frame)

Join(c, frame) == OnMessage(c, frame)
Leave(c, frame) == OnMessage(c, frame)
Clipboard(c, frame) == OnMessage(c, frame)
FileStart(c, frame) == OnMessage(c, frame)
FileChunk(c, frame) == OnMessage(c, frame)
Invalid(c, frame) == OnMessage(c, frame)

Create(c, frame) ==
    /\ Idle
    /\ CanReceive(c)
    /\ LET left == IF ws[c].roomId # NoRoom THEN handleLeave(State, c) ELSE State
       IN  \E roomId \in generateRoomId(left) :
              Commit(onCreate(State, c, frame, roomId), "message", c, frame)

\* ws.on('pong')
Pong(c) ==
    /\ Idle
    /\ CanReceive(c)
    /\ Commit([State EXCEPT !.ws[c].isAlive = TRUE, !.res = "pong"], "pong", c, NoFrame)

Close(c) ==
    /\ Idle
    /\ ws[c].readyState \in {"OPEN", "CLOSING"}
    /\ Commit([onClose(State, c) EXCEPT !.res = "closed"], "close", c, NoFrame)

\* The close event of a socket that terminate() destroyed is emitted before
\* the next heartbeat tick (30 s later).
Heartbeat ==
    /\ Idle
    /\ \A c \in Conns : ~ws[c].destroyed \/ ws[c].readyState = "CLOSED"
    /\ \E c \in Conns : ws[c].readyState \in {"OPEN", "CLOSING"}
    /\ Commit([heartbeat(State) EXCEPT !.res = "heartbeat"], "heartbeat", NoConn, NoFrame)

Sweep ==
    /\ Idle
    /\ rooms # EmptyMap
    /\ Commit([inactiveRoomCheck(State) EXCEPT !.res = "sweep"], "sweep", NoConn, NoFrame)

\* time passes
Tick ==
    /\ Idle
    /\ now < MaxTime
    /\ now' = now + 1
    /\ UNCHANGED <<rooms, ws, messageCounters, metrics, out, last>>


\* --------------------------------------------------------------- observers
TallyIds == GenRoomIds \cup {LowerRoomIdOf(i) : i \in 1..NumRoomIds}
NoTally == [joins |-> 0, leaves |-> 0]

RECURSIVE ApplyEv(_, _)
\* The tally after the room mutations ev: rooms.set starts a room's tally,
\* clients.set counts a join, clients.delete counts a leave; the idle sweep
\* ends the room without any leave.
ApplyEv(t, ev) ==
    IF ev = <<>> THEN t
    ELSE LET e == Head(ev)
             t1 == CASE e.e = "create" -> [t EXCEPT ![e.room] = NoTally]
                      [] e.e = "join" -> [t EXCEPT ![e.room].joins = @ + 1]
                      [] e.e = "leave" -> [t EXCEPT ![e.room].leaves = @ + 1]
                      [] e.e = "sweep" -> [t EXCEPT ![e.room] = NoTally]
                      [] OTHER -> t
         IN  ApplyEv(t1, Tail(ev))

TallyStep == tally' = ApplyEv(tally, last'.ev)

\* The sockets that stopped being a member of their room in the last event
Departed ==
    {last'.ev[i].ws : i \in {j \in DOMAIN last'.ev : last'.ev[j].e = "leave"}}
    \cup UNION {Members(rooms[last'.ev[i].room]) :
                    i \in {j \in DOMAIN last'.ev : last'.ev[j].e = "sweep"}}
    \cup (IF last'.op = "close" THEN {last'.ws} ELSE {})

IsAnnouncement(e) ==
    /\ e.op = "message" /\ e.res = "relayed"
    /\ e.frame.type \in {"file-start", "clipboard"}
    /\ Field(e.frame, "fileId", NoFile) # NoFile

IsChunk(e) == e.op = "message" /\ e.res = "relayed" /\ e.frame.type = "file-chunk"

\* The transfers c has announced into the room its roomId names and not
\* finished: an announcement that was relayed starts one, the relayed chunk
\* with chunkIndex = totalChunks - 1 ends it, leaving the room ends them all.
PendingOf(c) ==
    LET e == last'
        kept == IF c \in Departed THEN {} ELSE pending[c]
    IN  IF e.ws # c THEN kept
        ELSE IF IsAnnouncement(e)
        THEN IF \E p \in kept : p.fileId = e.frame.fileId THEN kept
             ELSE kept \cup {[fileId |-> e.frame.fileId, chunks |-> 0]}
        ELSE IF IsChunk(e) /\ e.frame.chunkIndex = e.frame.totalChunks - 1
        THEN {p \in kept : p.fileId # e.frame.fileId}
        ELSE IF IsChunk(e)
        THEN {IF p.fileId = e.frame.fileId THEN [p EXCEPT !.chunks = @ + 1] ELSE p : p \in kept}
        ELSE kept

NoInterrupt == [room |-> NoRoom, transfers |-> {}]

\* interrupted: the room and the unfinished transfers of the socket whose close
\* event was just handled
PendingStep ==
    /\ pending' = [c \in Conns |-> PendingOf(c)]
    /\ interrupted' = IF last'.op = "close"
                      THEN [room |-> ws[last'.ws].roomId, transfers |-> pending[last'.ws]]
                      ELSE NoInterrupt

NoWindow == [start |-> 0, n |-> 0, after |-> FALSE]

WindowOf(c) ==
    IF last'.op = "close" /\ last'.ws = c THEN NoWindow
    ELSE IF last'.op # "message" \/ last'.ws # c THEN window[c]
    ELSE IF window[c].n = 0 \/ now > window[c].start + RATE_LIMIT_WINDOW
    THEN [start |-> now, n |-> 1, after |-> window[c].n > MESSAGE_RATE_LIMIT]
    ELSE [window[c] EXCEPT !.n = @ + 1]

WindowStep == window' = [c \in Conns |-> WindowOf(c)]

\* =================================================================== client
\* ----------------------------------------------------------------- encodings
\* Bytes are 0..255, text is a sequence of UTF-16 code units, and a base-64
\* string is a sequence of characters.
B64Chars == UpperChars \o LowerChars \o DigitChars \o <<"+", "/">>
B64Index(ch) == CHOOSE i \in 0..63 : B64Chars[i + 1] = ch

RECURSIVE btoa(_)
\* btoa(String.fromCharCode(...bytes)); also the payload of readAsDataURL
btoa(b) ==
    IF b = <<>> THEN <<>>
    ELSE IF Len(b) = 1
    THEN <<B64Chars[(b[1] \div 4) + 1], B64Chars[((b[1] % 4) * 16) + 1], "=", "=">>
    ELSE IF Len(b) = 2
    THEN <<B64Chars[(b[1] \div 4) + 1],
           B64Chars[((b[1] % 4) * 16 + (b[2] \div 16)) + 1],
           B64Chars[((b[2] % 16) * 4) + 1], "=">>
    ELSE <<B64Chars[(b[1] \div 4) + 1],
           B64Chars[((b[1] % 4) * 16 + (b[2] \div 16)) + 1],
           B64Chars[((b[2] % 16) * 4 + (b[3] \div 64)) + 1],
           B64Chars[(b[3] % 64) + 1]>> \o btoa(SubSeq(b, 4, Len(b)))

\* atob(s) throws InvalidCharacterError: after the padding of a string whose
\* length is a multiple of 4 is removed, the length is 1 modulo 4 or a
\* character is outside the alphabet
atobThrows(s) ==
    LET n == Len(s)
        data == IF n > 0 /\ n % 4 = 0 /\ s[n] = "="
                THEN SubSeq(s, 1, IF s[n - 1] = "=" THEN n - 2 ELSE n - 1)
                ELSE s
    IN  \/ Len(data) % 4 = 1
        \/ \E i \in DOMAIN data : data[i] \notin Range(B64Chars)

RECURSIVE atob(_)
\* atob(s) as char codes, four characters at a time; two or three characters
\* at the end stand for one or two bytes
atob(s) ==
    IF Len(s) < 2 THEN <<>>
    ELSE LET n1 == B64Index(s[1])
             n2 == B64Index(s[2])
             b1 == n1 * 4 + (n2 \div 16)
         IN  IF Len(s) = 2 \/ s[3] = "=" THEN <<b1>>
             ELSE LET n3 == B64Index(s[3])
                      b2 == (n2 % 16) * 16 + (n3 \div 4)
                  IN  IF Len(s) = 3 \/ s[4] = "=" THEN <<b1, b2>>
                      ELSE <<b1, b2, (n3 % 4) * 64 + B64Index(s[4])>>
                                \o atob(SubSeq(s, 5, Len(s)))

IsHigh(u) == u >= 55296 /\ u <= 56319
IsLow(u) == u >= 56320 /\ u <= 57343
REPLACEMENT == 65533
BOM == 65279

RECURSIVE toScalars(_)
\* USVString conversion: a surrogate pair is one code point, a lone surrogate
\* becomes U+FFFD
toScalars(units) ==
    IF units = <<>> THEN <<>>
    ELSE IF IsHigh(units[1]) /\ Len(units) >= 2 /\ IsLow(units[2])
    THEN <<65536 + (units[1] - 55296) * 1024 + (units[2] - 56320)>>
            \o toScalars(SubSeq(units, 3, Len(units)))
    ELSE IF IsHigh(units[1]) \/ IsLow(units[1])
    THEN <<REPLACEMENT>> \o toScalars(Tail(units))
    ELSE <<units[1]>> \o toScalars(Tail(units))

utf8(cp) ==
    IF cp < 128 THEN <<cp>>
    ELSE IF cp < 2048 THEN <<192 + (cp \div 64), 128 + (cp % 64)>>
    ELSE IF cp < 65536
    THEN <<224 + (cp \div 4096), 128 + ((cp \div 64) % 64), 128 + (cp % 64)>>
    ELSE <<240 + (cp \div 262144), 128 + ((cp \div 4096) % 64),
           128 + ((cp \div 64) % 64), 128 + (cp % 64)>>

RECURSIVE utf8All(_)
utf8All(cps) == IF cps = <<>> THEN <<>> ELSE utf8(cps[1]) \o utf8All(Tail(cps))

\* new TextEncoder().encode(data)
TextEncoder_encode(units) == utf8All(toScalars(units))

IsCont(b) == b >= 128 /\ b < 192
RECURSIVE utf8Decode(_)
\* the code points of a byte sequence; a malformed sequence gives U+FFFD
utf8Decode(b) ==
    IF b = <<>> THEN <<>>
    ELSE IF b[1] < 128 THEN <<b[1]>> \o utf8Decode(Tail(b))
    ELSE IF b[1] >= 194 /\ b[1] < 224 /\ Len(b) >= 2 /\ IsCont(b[2])
    THEN <<(b[1] - 192) * 64 + (b[2] - 128)>> \o utf8Decode(SubSeq(b, 3, Len(b)))
    ELSE IF b[1] >= 224 /\ b[1] < 240 /\ Len(b) >= 3 /\ IsCont(b[2]) /\ IsCont(b[3])
    THEN <<(b[1] - 224) * 4096 + (b[2] - 128) * 64 + (b[3] - 128)>>
            \o utf8Decode(SubSeq(b, 4, Len(b)))
    ELSE IF /\ b[1] >= 240 /\ b[1] < 245 /\ Len(b) >= 4
            /\ IsCont(b[2]) /\ IsCont(b[3]) /\ IsCont(b[4])
    THEN <<(b[1] - 240) * 262144 + (b[2] - 128) * 4096 + (b[3] - 128) * 64 + (b[4] - 128)>>
            \o utf8Decode(SubSeq(b, 5, Len(b)))
    ELSE <<REPLACEMENT>> \o utf8Decode(Tail(b))

RECURSIVE toUnits(_)
\* the UTF-16 code units of a sequence of code points
toUnits(cps) ==
    IF cps = <<>> THEN <<>>
    ELSE IF cps[1] >= 65536
    THEN <<55296 + ((cps[1] - 65536) \div 1024), 56320 + ((cps[1] - 65536) % 1024)>>
            \o toUnits(Tail(cps))
    ELSE <<cps[1]>> \o toUnits(Tail(cps))

\* new TextDecoder().decode(bytes): UTF-8, ignoreBOM false, so a leading
\* byte order mark is not part of the result
TextDecoder_decode(b) ==
    LET cps == utf8Decode(b)
    IN  toUnits(IF cps # <<>> /\ cps[1] = BOM THEN Tail(cps) ELSE cps)

\* ------------------------------------------------------------ file transfer
\* Files are byte sequences of up to MaxFileSize bytes over ByteValues, cut
\* into chunks of CHUNK_SIZE bytes (1 MiB in the program, scaled here).
CHUNK_SIZE == 2
MaxFileSize == 5
ByteValues == {0, 77, 255}

RECURSIVE SeqsUpTo(_, _)
SeqsUpTo(S, n) ==
    IF n = 0 THEN {<<>>}
    ELSE LET shorter == SeqsUpTo(S, n - 1)
         IN  shorter \cup {Append(q, x) : q \in {r \in shorter : Len(r) = n - 1}, x \in S}

Files == SeqsUpTo(ByteValues, MaxFileSize)
Min(a, b) == IF a < b THEN a ELSE b

VARIABLES file, upload, wire, incomingFiles, updates, arrived
transferVars == <<file, upload, wire, incomingFiles, updates, arrived>>

Uploader == CHOOSE c \in Conns : \A d \in Conns : c <= d
UploadFileId == FileIdNames[1]
Hole == <<>>

\* Math.ceil(file.size / CHUNK_SIZE)
totalChunksOf(f) == (Len(f) + CHUNK_SIZE - 1) \div CHUNK_SIZE
\* file.slice(start, end), zero-based and end-exclusive
slice(f, start, end) == SubSeq(f, start + 1, end)
\* reader.readAsDataURL(chunk): "data:<type>;base64,<payload>"
readAsDataURL(chunk) == <<"data:application/octet-stream;base64", ",">> \o btoa(chunk)
\* dataUrl.split(',')[1]
splitComma1(dataUrl) ==
    LET first == CHOOSE i \in DOMAIN dataUrl :
                    dataUrl[i] = "," /\ \A j \in 1..(i - 1) : dataUrl[j] # ","
        rest == SubSeq(dataUrl, first + 1, Len(dataUrl))
    IN  IF \E i \in DOMAIN rest : rest[i] = ","
        THEN SubSeq(rest, 1, (CHOOSE i \in DOMAIN rest :
                                rest[i] = "," /\ \A j \in 1..(i - 1) : rest[j] # ",") - 1)
        ELSE rest

\* the announcement uploadFile sends first
startMessage(f, fileId) ==
    [type |-> "clipboard", contentType |-> "file", fileId |-> fileId,
     fileName |-> ShortName, fileSize |-> Len(f), fileType |-> "",
     totalChunks |-> totalChunksOf(f)]

\* the file-chunk message of iteration i of the loop of uploadFile
chunkMessage(f, fileId, i) ==
    LET start == i * CHUNK_SIZE
        end == Min(start + CHUNK_SIZE, Len(f))
    IN  [type |-> "file-chunk", fileId |-> fileId, chunkIndex |-> i,
         totalChunks |-> totalChunksOf(f),
         chunk |-> splitComma1(readAsDataURL(slice(f, start, end)))]

\* incomingFile.chunks[index] = chunk on a JavaScript array
arraySet(arr, index, v) ==
    [i \in 1..(IF index + 1 > Len(arr) THEN index + 1 ELSE Len(arr)) |->
        IF i = index + 1 THEN v ELSE IF i <= Len(arr) THEN arr[i] ELSE Hole]
\* chunks.filter(Boolean).length
filledCount(chunks) == Cardinality({i \in DOMAIN chunks : chunks[i] # Hole})

RECURSIVE Blob(_)
\* new Blob(chunks.map(atob ...)): the bytes of the parts, in index order
\* (map skips the holes of a sparse array)
Blob(chunks) ==
    IF chunks = <<>> THEN <<>>
    ELSE (IF Head(chunks) = Hole THEN <<>> ELSE atob(Head(chunks))) \o Blob(Tail(chunks))

\* (filled / totalChunks) * 100, kept as a fraction
percent(filled, totalChunks) == [num |-> filled * 100, den |-> totalChunks]
\* some part makes atob throw inside chunks.map
reassemblyThrows(chunks) ==
    \E i \in DOMAIN chunks : chunks[i] # Hole /\ atobThrows(chunks[i])

\* case 'clipboard' of onMessage, for a message that carries a fileId
onClipboard(R, message) ==
    IF Field(message, "fileId", NoFile) # NoFile
    THEN [R EXCEPT !.incomingFiles =
            MapSet(@, message.fileId,
                   [chunks |-> [i \in 1..message.totalChunks |-> Hole],
                    metadata |-> message])]
    ELSE R

\* handleFileChunk of the client with the slot array dropped at the end of the
\* try block instead of in finally
handleFileChunk_client_try(R, message) ==
    IF Field(message, "fileId", NoFile) = NoFile \/ Field(message, "chunk", <<>>) = <<>>
    THEN R
    ELSE IF message.fileId \notin DOMAIN R.incomingFiles THEN R
    ELSE
    LET chunks == arraySet(R.incomingFiles[message.fileId].chunks,
                           message.chunkIndex, message.chunk)
        R1 == [R EXCEPT !.incomingFiles[message.fileId].chunks = chunks]
        R2 == [R1 EXCEPT !.updates =
                  Append(@, [type |-> "file-progress", fileId |-> message.fileId,
                             progress |-> percent(filledCount(chunks),
                                                  message.totalChunks)])]
    IN  IF filledCount(chunks) = message.totalChunks
        THEN IF reassemblyThrows(chunks)
             THEN [R2 EXCEPT !.updates =
                      Append(@, [type |-> "file-error", fileId |-> message.fileId,
                                 message |-> "File reassembly failed"])]
             ELSE [R2 EXCEPT !.updates =
                      Append(@, [type |-> "file-complete", fileId |-> message.fileId,
                                 content |-> Blob(chunks)]),
                             !.incomingFiles = MapDel(@, message.fileId)]
        ELSE R2

\* handleFileChunk of the client; the file is still unknown after the retries
\* when no announcement for it is held
handleFileChunk_client(R, message) ==
    IF Field(message, "fileId", NoFile) = NoFile \/ Field(message, "chunk", <<>>) = <<>>
    THEN R
    ELSE IF message.fileId \notin DOMAIN R.incomingFiles THEN R
    ELSE
    LET chunks == arraySet(R.incomingFiles[message.fileId].chunks,
                           message.chunkIndex, message.chunk)
        R1 == [R EXCEPT !.incomingFiles[message.fileId].chunks = chunks]
        R2 == [R1 EXCEPT !.updates =
                  Append(@, [type |-> "file-progress", fileId |-> message.fileId,
                             progress |-> percent(filledCount(chunks),
                                                  message.totalChunks)])]
    IN  IF filledCount(chunks) = message.totalChunks
        THEN [R2 EXCEPT !.updates =
                  Append(@, IF reassemblyThrows(chunks)
                            THEN [type |-> "file-error", fileId |-> message.fileId,
                                  message |-> "File reassembly failed"]
                            ELSE [type |-> "file-complete", fileId |-> message.fileId,
                                  content |-> Blob(chunks)]),
                        !.incomingFiles = MapDel(@, message.fileId)]
        ELSE R2

\* case 'error' of onMessage, with onFileTransferUpdate registered
onError(R, message) ==
    IF Field(message, "fileId", NoFile) # NoFile
    THEN [R EXCEPT !.updates = Append(@, [type |-> "file-error",
                                           fileId |-> message.fileId,
                                           message |-> message.message]),
                   !.incomingFiles = MapDel(@, message.fileId)]
    ELSE R

\* the switch of onMessage over message.type; room-update and reload do not
\* touch the transfer state, and any other type falls to the default branch,
\* which logs
onMessageRef(R, message) ==
    CASE message.type = "clipboard" -> onClipboard(R, message)
      [] message.type = "file-chunk" -> handleFileChunk_client(R, message)
      [] message.type = "error" -> onError(R, message)
      [] OTHER -> R

Receiver == [incomingFiles |-> incomingFiles, updates |-> updates]
NotArrived == [announced |-> FALSE, chunks |-> {}, got |-> NoFrame]
\* the file-progress updates a receiver is handed before it stops taking part
MaxUpdates == 4

\* uploadFile up to its first await: the announcement is on the wire, relayed
\* by handleClipboard
UploadFile ==
    /\ upload.stage = "idle"
    /\ wire' = wire \cup {Stamp(startMessage(file, UploadFileId), Uploader, TRUE)}
    /\ upload' = [stage |-> "sending", i |-> 0]
    /\ UNCHANGED <<file, incomingFiles, updates, arrived>>

\* one iteration of the loop of uploadFile, relayed by the relay's handleFileChunk
SendChunk ==
    /\ upload.stage = "sending"
    /\ upload.i < totalChunksOf(file)
    /\ wire' = wire \cup {Stamp(chunkMessage(file, UploadFileId, upload.i), Uploader, FALSE)}
    /\ upload' = [upload EXCEPT !.i = @ + 1]
    /\ UNCHANGED <<file, incomingFiles, updates, arrived>>

\* the loop of uploadFile ends
UploadDone ==
    /\ upload.stage = "sending"
    /\ upload.i >= totalChunksOf(file)
    /\ upload' = [upload EXCEPT !.stage = "done"]
    /\ UNCHANGED <<file, wire, incomingFiles, updates, arrived>>

\* the receiver's onMessage gets the announcement
ReceiveClipboard ==
    /\ ~arrived.announced
    /\ \E m \in wire :
        /\ m.type = "clipboard"
        /\ LET R == onMessageRef(Receiver, m)
           IN  incomingFiles' = R.incomingFiles /\ updates' = R.updates
        /\ arrived' = [arrived EXCEPT !.announced = TRUE, !.got = m]
    /\ UNCHANGED <<file, upload, wire>>

\* the receiver's onMessage gets a file-chunk: any chunk that was sent, in any
\* order, any number of times
ReceiveFileChunk ==
    /\ arrived.announced
    /\ Len(updates) < MaxUpdates
    /\ \E m \in wire :
        /\ m.type = "file-chunk"
        /\ LET R == onMessageRef(Receiver, m)
           IN  incomingFiles' = R.incomingFiles /\ updates' = R.updates
        /\ arrived' = [arrived EXCEPT !.chunks = @ \cup {m.chunkIndex}, !.got = m]
    /\ UNCHANGED <<file, upload, wire>>

\* a sender's file-chunk whose payload is not base-64, relayed as it is by the
\* relay's handleFileChunk (validateFileChunk asks for a string only)
BadChunk == <<"!">>
SendBadChunk ==
    /\ upload.stage = "sending"
    /\ \E i \in 0..(totalChunksOf(file) - 1) :
          wire' = wire \cup {Stamp([type |-> "file-chunk", fileId |-> UploadFileId,
                                    chunkIndex |-> i,
                                    totalChunks |-> totalChunksOf(file),
                                    chunk |-> BadChunk], Uploader, FALSE)}
    /\ UNCHANGED <<file, upload, incomingFiles, updates, arrived>>

\* the uploader leaves or disconnects before its last chunk: the relay's
\* handleLeave broadcasts the file-cancel of the tracked transfer
UploaderLeaves ==
    /\ upload.stage = "sending"
    /\ upload.i < totalChunksOf(file)
    /\ wire' = wire \cup {[type |-> "file-cancel", fileId |-> UploadFileId,
                            senderId |-> Uploader]}
    /\ upload' = [upload EXCEPT !.stage = "left"]
    /\ UNCHANGED <<file, incomingFiles, updates, arrived>>

\* the receiver's onMessage gets a file-cancel
ReceiveFileCancel ==
    /\ \E m \in wire :
        /\ m.type = "file-cancel"
        /\ LET R == onMessageRef(Receiver, m)
           IN  incomingFiles' = R.incomingFiles /\ updates' = R.updates
        /\ arrived' = [arrived EXCEPT !.got = m]
    /\ UNCHANGED <<file, upload, wire>>

\* the receiver's onMessage gets an error message that names the file (the
\* relay's sendError writes code and message only; a message with a fileId is
\* what the 'error' case of onMessage provides for)
TransferError ==
    [type |-> "error", fileId |-> UploadFileId, message |-> "Transfer failed"]
ReceiveError ==
    /\ Len(updates) < MaxUpdates
    /\ LET R == onMessageRef(Receiver, TransferError)
       IN  incomingFiles' = R.incomingFiles /\ updates' = R.updates
    /\ arrived' = [arrived EXCEPT !.got = TransferError]
    /\ UNCHANGED <<file, upload, wire>>

InitTransfer ==
    /\ upload = [stage |-> "idle", i |-> 0]
    /\ wire = {}
    /\ incomingFiles = EmptyMap
    /\ updates = <<>>
    /\ arrived = NotArrived

\* ------------------------------------------------------------------- e2ee
\* ECDH over P-256 is modelled by Diffie-Hellman in the group of the powers of
\* GroupG modulo GroupP, AES-GCM by an additive stream cipher with a 16-byte
\* tag over key, nonce and ciphertext.
GroupP == 23
GroupG == 5
NumPrivateKeys == 3
MaxMessageLen == 2
IV_LENGTH == 12
TAG_LENGTH == 16
\* UTF-16 code units of the messages: A, e-acute, the byte order mark, and the
\* two halves of a surrogate pair
CodeUnits == {65, 233, BOM, 55357, 56832}
Messages == SeqsUpTo(CodeUnits, MaxMessageLen)
IvBytes == {0, 200}
\* window.crypto.getRandomValues(new Uint8Array(12))
getRandomValues == {[i \in 1..IV_LENGTH |-> v] : v \in IvBytes} \cup
                   {[i \in 1..IV_LENGTH |-> i * 21]}

RECURSIVE ModExp(_, _)
ModExp(b, e) == IF e = 0 THEN 1 ELSE (b * ModExp(b, e - 1)) % GroupP

\* generateE2eeKeyPair: the exported JWKs of a generated pair (the private JWK
\* carries the public point as well)
generateE2eeKeyPair ==
    {[publicKey |-> [x |-> ModExp(GroupG, d)],
      privateKey |-> [d |-> d, x |-> ModExp(GroupG, d)]] : d \in 1..NumPrivateKeys}

\* deriveSharedSecret(privateKey, publicKey): the AES key both sides derive
deriveSharedSecret(privateKey, publicKey) == ModExp(publicKey.x, privateKey.d)

RECURSIVE Sum(_)
Sum(b) == IF b = <<>> THEN 0 ELSE b[1] + Sum(Tail(b))

keystream(key, iv, i) == (key * 31 + iv[((i - 1) % IV_LENGTH) + 1] * 7 + i * 13) % 256
tagOf(key, iv, ct) ==
    [j \in 1..TAG_LENGTH |-> (key * 5 + Sum(iv) + Sum(ct) * 3 + Len(ct) + j * 17) % 256]

\* crypto.subtle.encrypt({name: 'AES-GCM', iv, tagLength: 128}, key, data):
\* ciphertext followed by the tag
subtle_encrypt(iv, key, data) ==
    LET ct == [i \in 1..Len(data) |-> (data[i] + keystream(key, iv, i)) % 256]
    IN  ct \o tagOf(key, iv, ct)

\* A decryption that does not verify the tag (a cipher without authentication)
subtle_decrypt_unverified(iv, key, data) ==
    [ok |-> TRUE,
     bytes |-> [i \in 1..(IF Len(data) > TAG_LENGTH THEN Len(data) - TAG_LENGTH ELSE 0) |->
                  (data[i] + 256 - keystream(key, iv, i)) % 256]]

\* crypto.subtle.decrypt: throws OperationError when the tag does not verify
subtle_decrypt(iv, key, data) ==
    IF Len(data) < TAG_LENGTH THEN [ok |-> FALSE, bytes |-> <<>>]
    ELSE LET ct == SubSeq(data, 1, Len(data) - TAG_LENGTH)
             tag == SubSeq(data, Len(data) - TAG_LENGTH + 1, Len(data))
         IN  IF tag # tagOf(key, iv, ct) THEN [ok |-> FALSE, bytes |-> <<>>]
             ELSE [ok |-> TRUE,
                   bytes |-> [i \in 1..Len(ct) |->
                                (ct[i] + 256 - keystream(key, iv, i)) % 256]]

\* encryptFor(data, privateKey, publicKey), with the nonce getRandomValues gave
encryptFor(data, privateKey, publicKey, iv) ==
    LET sharedSecret == deriveSharedSecret(privateKey, publicKey)
        encodedData == TextEncoder_encode(data)
        encryptedData == subtle_encrypt(iv, sharedSecret, encodedData)
        combined == iv \o encryptedData
    IN  btoa(combined)

Null == [ok |-> FALSE, text |-> <<>>]

\* decryptFrom(encryptedDataB64, privateKey, publicKey); null when anything throws
decryptFrom(encryptedDataB64, privateKey, publicKey) ==
    LET sharedSecret == deriveSharedSecret(privateKey, publicKey)
        combined == atob(encryptedDataB64)
        iv == SubSeq(combined, 1, Min(IV_LENGTH, Len(combined)))
        encryptedData == SubSeq(combined, IV_LENGTH + 1, Len(combined))
        decryptedData == subtle_decrypt(iv, sharedSecret, encryptedData)
    IN  IF atobThrows(encryptedDataB64) \/ Len(iv) # IV_LENGTH \/ ~decryptedData.ok
        THEN Null
        ELSE [ok |-> TRUE, text |-> TextDecoder_decode(decryptedData.bytes)]

VARIABLES keyPair, peerKeyPair, content, encryptedContent, decrypted, nonce
e2eeVars == <<keyPair, peerKeyPair, content, encryptedContent, decrypted, nonce>>

NoKeyPair == [publicKey |-> [x |-> 0], privateKey |-> [d |-> 0, x |-> 0]]
NotYet == [done |-> FALSE, value |-> Null]

\* the sender encrypts content for the peer
EncryptFor ==
    /\ encryptedContent = <<>>
    /\ keyPair # NoKeyPair
    /\ \E iv \in getRandomValues :
        /\ nonce' = iv
        /\ encryptedContent' = encryptFor(content, keyPair.privateKey,
                                          peerKeyPair.publicKey, iv)
    /\ UNCHANGED <<keyPair, peerKeyPair, content, decrypted>>

\* the peer decrypts what the sender sent
DecryptFrom ==
    /\ encryptedContent # <<>>
    /\ decrypted = NotYet
    /\ decrypted' = [done |-> TRUE,
                     value |-> decryptFrom(encryptedContent, peerKeyPair.privateKey,
                                           keyPair.publicKey)]
    /\ UNCHANGED <<keyPair, peerKeyPair, content, encryptedContent, nonce>>

\* What encryptFor gave the sender, as bytes: nonce, ciphertext, tag
Untouched ==
    nonce \o subtle_encrypt(nonce,
                            deriveSharedSecret(keyPair.privateKey, peerKeyPair.publicKey),
                            TextEncoder_encode(content))
AsSent == encryptedContent # <<>> /\ encryptedContent = btoa(Untouched)
\* The bytes the receiver decodes are the bytes that were sent
Intact == encryptedContent # <<>> /\ ~atobThrows(encryptedContent)
                /\ atob(encryptedContent) = Untouched

\* One character of the payload is replaced on the way: by the next character
\* of the alphabet, or by one outside of it
Corrupt ==
    /\ AsSent /\ decrypted = NotYet
    /\ \E i \in DOMAIN encryptedContent :
        \E ch \in {"*"} \cup (IF encryptedContent[i] = "=" THEN {}
                               ELSE {B64Chars[((B64Index(encryptedContent[i]) + 1) % 64) + 1]}) :
            encryptedContent' = [encryptedContent EXCEPT ![i] = ch]
    /\ UNCHANGED <<keyPair, peerKeyPair, content, decrypted, nonce>>

\* The payload is cut short on the way
Truncate ==
    /\ AsSent /\ decrypted = NotYet
    /\ \E n \in 1..(Len(encryptedContent) - 1) :
            encryptedContent' = SubSeq(encryptedContent, 1, n)
    /\ UNCHANGED <<keyPair, peerKeyPair, content, decrypted, nonce>>

\* The receiver holds another key pair than the one the payload was encrypted for
OtherKeyPair ==
    /\ AsSent /\ decrypted = NotYet
    /\ \E pair \in generateE2eeKeyPair \ {peerKeyPair} : peerKeyPair' = pair
    /\ UNCHANGED <<keyPair, content, encryptedContent, decrypted, nonce>>

InitE2ee ==
    /\ content = <<>>
    /\ encryptedContent = <<>>
    /\ decrypted = NotYet
    /\ nonce = <<>>

\* --------------------------------------------------------------- ordering
\* The frames a client has transmitted and the relay has not handled yet
\* (inbound, a TCP stream per socket), how many it has transmitted, and what
\* the relay has written to each socket so far (delivered, in write order).
MaxSent == 2
VARIABLES inbound, transmitted, delivered
orderVars == <<inbound, transmitted, delivered>>

\* The n-th text a client sends
NumberedFrame(n) == [type |-> "clipboard", contentType |-> "text", content |-> n]

\* A relay that takes the newest frame of a socket first.
arrivalOrder_newestFirst(q) == Len(q)

\* ws.on('message') fires for the frames of a socket in the order they arrived
arrivalOrder(q) == 1

\* a client writes its next text to its socket
Transmit(c) ==
    /\ ws[c].readyState = "OPEN"
    /\ transmitted[c] < MaxSent
    /\ inbound' = [inbound EXCEPT ![c] = Append(@, NumberedFrame(transmitted[c] + 1))]
    /\ transmitted' = [transmitted EXCEPT ![c] = @ + 1]
    /\ UNCHANGED <<delivered, relayVars>>

\* the relay handles the next frame of a socket; its writes go to the streams
\* of the sockets they are addressed to
Receive(c) ==
    /\ inbound[c] # <<>>
    /\ LET i == arrivalOrder(inbound[c])
       IN  /\ OnMessage(c, inbound[c][i])
           /\ inbound' = [inbound EXCEPT ![c] =
                            SubSeq(@, 1, i - 1) \o SubSeq(@, i + 1, Len(@))]
    /\ delivered' =
          [r \in Conns |->
              LET written == SelectSeq(out', LAMBDA o : /\ o.op = "send"
                                                        /\ o.to = r
                                                        /\ o.msg.type = "clipboard")
              IN  delivered[r] \o [k \in DOMAIN written |-> written[k].msg]]
    /\ UNCHANGED transmitted

\* the close event of a socket: what it had in flight is gone with it
CloseInbound(c) ==
    /\ Close(c)
    /\ inbound' = [inbound EXCEPT ![c] = <<>>]
    /\ UNCHANGED <<transmitted, delivered>>

InitOrder ==
    /\ inbound = [c \in Conns |-> <<>>]
    /\ transmitted = [c \in Conns |-> 0]
    /\ delivered = [c \in Conns |-> <<>>]

\* ---------------------------------------------------------------- session
\* One page with the hook useWebSocket against the relay: the state of the
\* hook, its socket (the relay socket it is connected as), and a probe that
\* records what the hook did in the last step.
MaxAttempts == 6
VARIABLES
    isSecureContext,   \* window.isSecureContext
    initialRoomId,     \* the room id of the page's URL, NoRoom on the start page
    isE2eeEnabled, isReady, socket, reconnectAttempt, reconnectTimeout,
    roomState, roomClients,
    mounted,           \* the component that calls the hook is mounted
    stale,             \* sockets the effect cleanup closed whose close event is due
    pendingRoomCreation, pendingRoomJoin,
                       \* the promise whose resolve the ref holds (0: undefined)
    promises,          \* the promises createRoom and joinRoom have returned
    probe              \* closes since the last open, the room held at the last
                       \* disconnect, how the room was entered, the sockets
                       \* used, and the frames sent and messages handed to
                       \* onClipboardReceived in the last step
sessionVars == <<isSecureContext, initialRoomId, isE2eeEnabled, isReady, socket,
                 reconnectAttempt, reconnectTimeout, roomState, roomClients,
                 mounted, stale, pendingRoomCreation, pendingRoomJoin, promises, probe>>

NoJwk == NoKeyPair.publicKey
NoSocket == [conn |-> NoConn, readyState |-> "NONE"]
NoTimeout == [pending |-> FALSE, delay |-> 0]
NoRoomState == [roomId |-> NoRoom, connected |-> FALSE, clientCount |-> 0,
                clientId |-> NoConn]
NoProbe == [closes |-> 0, wasIn |-> NoRoom, via |-> "none", mine |-> {},
            sent |-> <<>>, handed |-> <<>>]

\* The state a callback of the hook works on, with what it sends (sent), what
\* it hands to onClipboardReceived (handed) and whether it reloaded the page
Hook == [isE2eeEnabled |-> isE2eeEnabled, isReady |-> isReady, keyPair |-> keyPair,
         socket |-> socket, reconnectAttempt |-> reconnectAttempt,
         reconnectTimeout |-> reconnectTimeout, roomState |-> roomState,
         roomClients |-> roomClients,
         pendingRoomCreation |-> pendingRoomCreation,
         pendingRoomJoin |-> pendingRoomJoin, promises |-> promises,
         sent |-> <<>>, handed |-> <<>>, reloaded |-> FALSE]

\* An initialisation that generates a key pair in any context.
initKeyPair_always(H, pair, failed) ==
    [H EXCEPT !.keyPair = pair, !.isE2eeEnabled = isSecureContext /\ ~failed,
              !.isReady = TRUE]

\* initKeyPair: pair is what getKeyPair() or generateE2eeKeyPair() gives,
\* failed says that one of them (or storeKeyPair) threw
initKeyPair(H, pair, failed) ==
    LET H1 == IF ~isSecureContext \/ failed THEN [H EXCEPT !.isE2eeEnabled = FALSE]
              ELSE [H EXCEPT !.keyPair = pair, !.isE2eeEnabled = isSecureContext]
    IN  [H1 EXCEPT !.isReady = TRUE]

\* connect(): ws.current = new WebSocket(wsUrl)
connect(H) == [H EXCEPT !.socket = [conn |-> NoConn, readyState |-> "CONNECTING"]]

\* ws.current.send(JSON.stringify(message))
send(H, message) == [H EXCEPT !.sent = Append(@, message)]

\* {type: 'join', roomId, ...(isE2eeEnabled && keyPair && {publicKey})} and
\* the create message: no publicKey field unless E2EE is on and a pair is held
withPublicKey(H, message) ==
    IF H.isE2eeEnabled /\ H.keyPair # NoKeyPair
    THEN [k \in DOMAIN message \cup {"publicKey"} |->
            IF k = "publicKey" THEN H.keyPair.publicKey ELSE message[k]]
    ELSE message

\* ws.current.onopen, on the relay socket c
onopen(H, c) ==
    LET H1 == [H EXCEPT !.socket = [conn |-> c, readyState |-> "OPEN"],
                        !.roomState.connected = TRUE,
                        !.reconnectAttempt = 0]
    IN  IF initialRoomId # NoRoom
        THEN send(H1, withPublicKey(H1, [type |-> "join", roomId |-> initialRoomId]))
        ELSE H1

\* A delay that is not capped.
backoffDelay_uncapped(attempt) == 3000 * 2^(attempt - 1)

\* Math.min(3000 * Math.pow(2, reconnectAttemptRef.current - 1), 30000)
backoffDelay(attempt) == Min(3000 * 2^(attempt - 1), 30000)

\* ws.current.onclose
onclose(H) ==
    LET attempt == H.reconnectAttempt + 1
    IN  [H EXCEPT !.socket.readyState = "CLOSED",
                  !.roomState.connected = FALSE,
                  !.roomState.clientCount = 0,
                  !.roomState.clientId = NoConn,
                  !.reconnectAttempt = attempt,
                  !.reconnectTimeout = [pending |-> TRUE, delay |-> backoffDelay(attempt)]]

\* the callback of the reconnect timer
onTimeout(H) ==
    LET H1 == [H EXCEPT !.reconnectTimeout.pending = FALSE]
    IN  IF H.socket.readyState = "CLOSED" THEN connect(H1) ELSE H1

\* new Promise(resolve => { ref.current = resolve; ... }): the promise is
\* pending until something calls the resolve the ref holds
newPromise(H, kind) ==
    [H EXCEPT !.promises = Append(@, [kind |-> kind, settled |-> FALSE,
                                      value |-> IF kind = "join" THEN FALSE ELSE NoRoom])]
\* ref.current(value): settles the promise unless it is settled already
resolve(H, p, value) ==
    IF ~H.promises[p].settled
    THEN [H EXCEPT !.promises[p].settled = TRUE, !.promises[p].value = value]
    ELSE H

createRoom(H) ==
    LET H1 == newPromise(H, "create")
        H2 == [H1 EXCEPT !.pendingRoomCreation = Len(H1.promises)]
    IN  send(H2, withPublicKey(H2, [type |-> "create"]))
joinRoom(H, roomId) ==
    LET H1 == newPromise(H, "join")
        H2 == [H1 EXCEPT !.pendingRoomJoin = Len(H1.promises)]
    IN  send(H2, withPublicKey(H2, [type |-> "join", roomId |-> roomId]))

\* sendMessage of the hook, with the nonce encryptFor draws
sendMessage_client(H, message, iv) ==
    IF H.socket.readyState # "OPEN" THEN H
    ELSE
    LET isText == /\ message.type = "clipboard"
                  /\ Field(message, "fileId", NoFile) = NoFile
                  /\ Field(message, "content", <<>>) # <<>>
        recipients == SelectSeq(H.roomClients, LAMBDA c : c.id # H.roomState.clientId)
        encrypts == /\ H.isE2eeEnabled /\ H.keyPair # NoKeyPair
                    /\ H.roomState.clientId # NoConn /\ isText
                    /\ Len(recipients) > 0 /\ recipients[1].publicKey # NoJwk
        messageToSend ==
            IF encrypts
            THEN [k \in (DOMAIN message \ {"content"}) \cup {"encryptedContent"} |->
                    IF k = "encryptedContent"
                    THEN encryptFor(message.content, H.keyPair.privateKey,
                                    recipients[1].publicKey, iv)
                    ELSE message[k]]
            ELSE message
    IN  send(H, messageToSend)

\* window.location.reload(): the page starts over; its socket is left to close
reload(H) ==
    [H EXCEPT !.isE2eeEnabled = isSecureContext, !.isReady = FALSE,
              !.keyPair = NoKeyPair, !.socket = NoSocket,
              !.reconnectAttempt = 0, !.reconnectTimeout = NoTimeout,
              !.roomState = NoRoomState, !.roomClients = <<>>,
              !.pendingRoomCreation = 0, !.pendingRoomJoin = 0, !.promises = <<>>,
              !.reloaded = TRUE]

\* onMessageRef.current, for the messages of this specification (room-update,
\* clipboard without fileId, error, reload)
onMessage_client(H, message) ==
    CASE message.type = "room-update" ->
            LET H1 == [H EXCEPT !.roomState =
                        [roomId |-> message.roomId, connected |-> TRUE,
                         clientCount |-> message.clientCount,
                         clientId |-> IF Field(message, "clientId", NoConn) # NoConn
                                      THEN message.clientId
                                      ELSE H.roomState.clientId],
                      !.roomClients = message.clients]
                H2 == IF H1.pendingRoomCreation # 0 /\ message.roomId # NoRoom
                      THEN [resolve(H1, H1.pendingRoomCreation, message.roomId)
                                EXCEPT !.pendingRoomCreation = 0]
                      ELSE H1
            IN  IF H2.pendingRoomJoin # 0
                THEN [resolve(H2, H2.pendingRoomJoin, TRUE) EXCEPT !.pendingRoomJoin = 0]
                ELSE H2
      [] message.type = "error" ->
            IF H.pendingRoomJoin # 0
            THEN [resolve(H, H.pendingRoomJoin, FALSE) EXCEPT !.pendingRoomJoin = 0]
            ELSE H
      [] message.type = "clipboard" -> [H EXCEPT !.handed = Append(@, message)]
      [] message.type = "reload" -> reload(H)
      [] OTHER -> H

RECURSIVE deliver(_, _)
\* the message events of the hook's socket, in order, until the page is gone
deliver(H, messages) ==
    IF messages = <<>> \/ H.reloaded THEN H
    ELSE deliver(onMessage_client(H, Head(messages)), Tail(messages))

\* what a handler of the relay wrote to the hook's socket
ToHook(o) ==
    LET mine == SelectSeq(o, LAMBDA e : e.op = "send" /\ e.to = socket.conn)
    IN  [i \in DOMAIN mine |-> mine[i].msg]

\* JSON.parse at the relay: data.publicKey of a frame without one is undefined
parseFrame(f) ==
    IF f.type \in {"join", "create"} /\ "publicKey" \notin DOMAIN f
    THEN [k \in DOMAIN f \cup {"publicKey"} |-> IF k = "publicKey" THEN NoJwk ELSE f[k]]
    ELSE f

AssignHook(H) ==
    /\ isE2eeEnabled' = H.isE2eeEnabled
    /\ isReady' = H.isReady
    /\ keyPair' = H.keyPair
    /\ socket' = H.socket
    /\ reconnectAttempt' = H.reconnectAttempt
    /\ reconnectTimeout' = H.reconnectTimeout
    /\ roomState' = H.roomState
    /\ roomClients' = H.roomClients
    /\ pendingRoomCreation' = H.pendingRoomCreation
    /\ pendingRoomJoin' = H.pendingRoomJoin
    /\ promises' = H.promises

SetHook(H) ==
    /\ AssignHook(H)
    /\ UNCHANGED <<isSecureContext, initialRoomId, mounted, stale>>

\* the probe after a callback: what it sent and handed on
Probed(H, closes, wasIn, via) ==
    probe' = [closes |-> closes, wasIn |-> wasIn, via |-> via,
              mine |-> probe.mine \cup ({H.socket.conn} \ {NoConn}),
              sent |-> H.sent, handed |-> H.handed]

\* a callback of the hook that does not involve the relay: what it sends is
\* on its way to the relay
HookStep(H, closes, wasIn, via) ==
    /\ SetHook(H)
    /\ Probed(H, closes, wasIn, via)
    /\ inbound' = IF H.sent = <<>> THEN inbound
                  ELSE [inbound EXCEPT ![H.socket.conn] = @ \o H.sent]
    /\ UNCHANGED <<relayVars, transmitted, delivered>>

\* a handler of the relay has run: the hook handles what was written to it
RelayStep ==
    LET H == IF socket.readyState = "OPEN" THEN deliver(Hook, ToHook(out')) ELSE Hook
    IN  /\ SetHook(H)
        /\ Probed(H, IF H.reloaded THEN 0 ELSE probe.closes,
                     IF H.reloaded THEN NoRoom ELSE probe.wasIn,
                     IF H.reloaded THEN "none" ELSE probe.via)
        /\ UNCHANGED <<transmitted, delivered>>

\* the effect that runs initKeyPair, and the effect that connects when ready
\* (pairs: what localStorage holds, or what generateE2eeKeyPair can give;
\* failures: whether a call may throw)
InitKeyPair(pairs, failures) ==
    /\ ~isReady
    /\ \E pair \in pairs, failed \in failures :
          HookStep(connect(initKeyPair(Hook, pair, failed)),
                   probe.closes, probe.wasIn, probe.via)

\* the relay accepts the connection and onopen runs
SocketOpen(c) ==
    /\ socket.readyState = "CONNECTING"
    /\ Connect(c)
    /\ LET H == onopen(Hook, c)
       IN  /\ SetHook(H)
           /\ Probed(H, 0, probe.wasIn,
                     IF initialRoomId # NoRoom THEN "url" ELSE probe.via)
           /\ inbound' = [inbound EXCEPT ![c] = @ \o H.sent]
    /\ UNCHANGED <<transmitted, delivered>>

\* the connection attempt fails: onclose without onopen
ConnectFails ==
    /\ socket.readyState = "CONNECTING"
    /\ reconnectAttempt < MaxAttempts
    /\ HookStep(onclose(Hook), probe.closes + 1, probe.wasIn, probe.via)

\* the open socket drops: close event at the relay, onclose in the hook
SocketDrops ==
    /\ socket.readyState = "OPEN"
    /\ reconnectAttempt < MaxAttempts
    /\ Close(socket.conn)
    /\ LET H == onclose(Hook)
       IN  /\ SetHook(H)
           /\ Probed(H, probe.closes + 1, roomState.roomId, probe.via)
    /\ inbound' = [inbound EXCEPT ![socket.conn] = <<>>]
    /\ UNCHANGED <<transmitted, delivered>>

ReconnectTimer ==
    /\ reconnectTimeout.pending
    /\ HookStep(onTimeout(Hook), probe.closes, probe.wasIn, probe.via)

\* the cleanup of the connect effect: clearTimeout(reconnectTimeoutRef.current)
\* and ws.current?.close(); close() does nothing to a socket that is closed
cleanup(H) ==
    [H EXCEPT !.reconnectTimeout.pending = FALSE,
              !.socket.readyState = IF @ \in {"CONNECTING", "OPEN"} THEN "CLOSING" ELSE @]

\* the onclose handler of a socket that ws.current no longer refers to: the
\* same closure, run for the close event of the replaced socket
onclose_replaced(H) == [onclose(H) EXCEPT !.socket = H.socket]

\* the close event a socket closed by the cleanup is due
CloseDue(H) == H.socket.readyState = "CLOSING"

\* the component unmounts: the cleanup of the connect effect runs
Unmount ==
    /\ mounted /\ isReady
    /\ mounted' = FALSE
    /\ AssignHook(cleanup(Hook))
    /\ probe' = probe
    /\ UNCHANGED <<isSecureContext, initialRoomId, stale, inbound, relayVars,
                   transmitted, delivered>>

\* the hook is rendered with another room id: connect is a new callback, the
\* cleanup of the connect effect runs and then the effect itself
EffectReruns(roomId) ==
    /\ mounted /\ isReady
    /\ roomId # initialRoomId
    /\ initialRoomId' = roomId
    /\ LET H == cleanup(Hook)
       IN  /\ stale' = IF CloseDue(H) THEN stale \cup {socket.conn} ELSE stale
           /\ AssignHook(connect(H))
    /\ probe' = probe
    /\ UNCHANGED <<isSecureContext, mounted, inbound, relayVars, transmitted, delivered>>

\* the close event of the socket the cleanup closed at unmount: the relay's
\* close handler if the socket had opened, and onclose in the page
ClosedSocketCloses ==
    /\ ~mounted
    /\ socket.readyState = "CLOSING"
    /\ reconnectAttempt < MaxAttempts
    /\ IF socket.conn # NoConn THEN Close(socket.conn) ELSE Idle /\ UNCHANGED relayVars
    /\ SetHook(onclose(Hook))
    /\ probe' = probe
    /\ inbound' = IF socket.conn # NoConn THEN [inbound EXCEPT ![socket.conn] = <<>>]
                  ELSE inbound
    /\ UNCHANGED <<transmitted, delivered>>

\* the close event of a socket the effect has replaced
ReplacedSocketCloses(c) ==
    /\ c \in stale
    /\ reconnectAttempt < MaxAttempts
    /\ IF c # NoConn THEN Close(c) ELSE Idle /\ UNCHANGED relayVars
    /\ AssignHook(onclose_replaced(Hook))
    /\ stale' = stale \ {c}
    /\ probe' = probe
    /\ inbound' = IF c # NoConn THEN [inbound EXCEPT ![c] = <<>>] ELSE inbound
    /\ UNCHANGED <<isSecureContext, initialRoomId, mounted, transmitted, delivered>>

\* The start page offers createRoom and joinRoom while the hook holds no room;
\* the hook writes its next frame when the relay has taken the last one.
CanSend == socket.readyState = "OPEN" /\ inbound[socket.conn] = <<>>

JoinRoom(roomId) ==
    /\ CanSend /\ initialRoomId = NoRoom /\ roomState.roomId = NoRoom
    /\ HookStep(joinRoom(Hook, roomId), probe.closes, probe.wasIn, "joinRoom")

CreateRoom ==
    /\ CanSend /\ initialRoomId = NoRoom /\ roomState.roomId = NoRoom
    /\ HookStep(createRoom(Hook), probe.closes, probe.wasIn, "createRoom")

SessionTexts == {<<65>>}

SendText ==
    /\ CanSend /\ roomState.roomId # NoRoom
    /\ \E text \in SessionTexts, iv \in getRandomValues :
          HookStep(sendMessage_client(Hook, [type |-> "clipboard", contentType |-> "text",
                                             content |-> text], iv),
                   probe.closes, probe.wasIn, probe.via)

\* the relay handles the next frame a socket of the page has written
Handle(c) ==
    /\ inbound[c] # <<>>
    /\ Budget(c, 0)
    /\ LET frame == parseFrame(Head(inbound[c]))
       IN  IF frame.type = "create" THEN Create(c, frame) ELSE OnMessage(c, frame)
    /\ inbound' = [inbound EXCEPT ![c] = Tail(@)]
    /\ RelayStep

\* Other clients: they connect, join the room of the URL with their public
\* key, send a text in the clear or encrypted for a member of the roster, and
\* close.
PeerKeyPair(c) ==
    CHOOSE pair \in generateE2eeKeyPair : pair.privateKey.d = (c % NumPrivateKeys) + 1
PeerJoinFrames(c) ==
    {[type |-> "join", roomId |-> LowerRoomIdOf(1), publicKey |-> PeerKeyPair(c).publicKey]}
PeerTextFrames(c) ==
    {[type |-> "clipboard", contentType |-> "text", content |-> text] :
        text \in SessionTexts}
    \cup
    {[type |-> "clipboard", contentType |-> "text",
      encryptedContent |-> encryptFor(text, PeerKeyPair(c).privateKey, k,
                                      CHOOSE iv \in getRandomValues : TRUE)] :
        text \in SessionTexts,
        k \in {roomClients[i].publicKey : i \in DOMAIN roomClients} \ {NoJwk}}

IsPeer(c) == c \notin probe.mine /\ ws[c].readyState = "OPEN"

PeerConnect(c) ==
    /\ socket.readyState # "CONNECTING"
    /\ Connect(c) /\ RelayStep /\ UNCHANGED inbound
PeerJoin(c, f) == IsPeer(c) /\ Budget(c, 0) /\ Join(c, f) /\ RelayStep /\ UNCHANGED inbound
PeerText(c, f) == IsPeer(c) /\ Budget(c, 0) /\ Clipboard(c, f) /\ RelayStep /\ UNCHANGED inbound
\* the close event of a peer's socket, or of a socket a reload left behind
PeerClose(c) ==
    /\ c # socket.conn
    /\ Close(c) /\ RelayStep
    /\ inbound' = [inbound EXCEPT ![c] = <<>>]

SessionFlush ==
    /\ Flush
    /\ probe' = [probe EXCEPT !.sent = <<>>, !.handed = <<>>]
    /\ UNCHANGED <<isSecureContext, initialRoomId, isE2eeEnabled, isReady, keyPair, socket,
                   reconnectAttempt, reconnectTimeout, roomState, roomClients,
                   mounted, stale, pendingRoomCreation, pendingRoomJoin, promises,
                   orderVars>>

InitSession ==
    /\ isE2eeEnabled = isSecureContext
    /\ isReady = FALSE
    /\ socket = NoSocket
    /\ reconnectAttempt = 0
    /\ reconnectTimeout = NoTimeout
    /\ roomState = NoRoomState
    /\ roomClients = <<>>
    /\ mounted = TRUE
    /\ stale = {}
    /\ pendingRoomCreation = 0
    /\ pendingRoomJoin = 0
    /\ promises = <<>>
    /\ probe = NoProbe

\* --------------------------------------------------------- specifications
InitRelay ==
    /\ rooms = EmptyMap
    /\ ws = [c \in Conns |-> NewSocket]
    /\ messageCounters = EmptyMap
    /\ metrics = [activeConnections |-> 0]
    /\ now = 0
    /\ out = <<>>
    /\ last = NoEvent

InitGhosts ==
    /\ tally = [r \in TallyIds |-> NoTally]
    /\ pending = [c \in Conns |-> {}]
    /\ interrupted = NoInterrupt
    /\ window = [c \in Conns |-> NoWindow]

InitClient ==
    /\ file = <<>>
    /\ InitTransfer
    /\ keyPair = NoKeyPair
    /\ peerKeyPair = NoKeyPair
    /\ InitE2ee
    /\ InitOrder
    /\ isSecureContext = TRUE
    /\ initialRoomId = NoRoom
    /\ InitSession

Init == InitRelay /\ InitGhosts /\ InitClient

clientVars == <<transferVars, e2eeVars, orderVars, sessionVars>>
vars == <<relayVars, ghostVars, clientVars>>

\* Room lifecycle: any interleaving of connections, joins, creates, leaves,
\* closes and heartbeats of NumConns sockets.  The clock stands still, and
\* every client stays within its rate budget.
NoObs == UNCHANGED <<ghostVars, clientVars>>

Next ==
    \/ \E c \in Conns : Connect(c) /\ NoObs
    \/ \E c \in Conns : \E f \in JoinFrames(c) : Budget(c, 0) /\ Join(c, f) /\ NoObs
    \/ \E c \in Conns : Budget(c, 0) /\ \E f \in CreateFrames(c) : Create(c, f) /\ NoObs
    \/ \E c \in Conns, f \in LeaveFrames : Budget(c, 0) /\ Leave(c, f) /\ NoObs
    \/ \E c \in Conns : Pong(c) /\ NoObs
    \/ \E c \in Conns : Close(c) /\ NoObs
    \/ Heartbeat /\ NoObs
    \/ Flush /\ NoObs

Spec == Init /\ [][Next]_vars

\* Membership counting: joins, creates, leaves and closes, with the tally.
CountObs == TallyStep /\ UNCHANGED <<pending, interrupted, window, clientVars>>

NextCount ==
    \/ \E c \in Conns : Connect(c) /\ CountObs
    \/ \E c \in Conns : \E f \in JoinFrames(c) : Budget(c, 0) /\ Join(c, f) /\ CountObs
    \/ \E c \in Conns : Budget(c, 0) /\ \E f \in CreateFrames(c) : Create(c, f) /\ CountObs
    \/ \E c \in Conns, f \in LeaveFrames : Budget(c, 0) /\ Leave(c, f) /\ CountObs
    \/ \E c \in Conns : Close(c) /\ CountObs
    \/ Flush /\ CountObs

SpecCount == Init /\ [][NextCount]_vars

\* Relay of content: joins, leaves and closes of RelayConns sockets interleaved
\* with clipboard, file-start and file-chunk frames.
RelayConns == 2
RelayObs == PendingStep /\ UNCHANGED <<tally, window, clientVars>>

NextRelay ==
    \/ \E c \in 1..RelayConns : Connect(c) /\ RelayObs
    \/ \E c \in 1..RelayConns : \E f \in JoinFrames(c) : Budget(c, 0) /\ Join(c, f) /\ RelayObs
    \/ \E c \in 1..RelayConns : Budget(c, 0) /\ \E f \in CreateFrames(c) : Create(c, f) /\ RelayObs
    \/ \E c \in 1..RelayConns, f \in LeaveFrames : Budget(c, 0) /\ Leave(c, f) /\ RelayObs
    \/ \E c \in 1..RelayConns,
            f \in TextFrames \cup AnnounceFrames("clipboard") \cup ForgedFrames("clipboard") :
            Budget(c, 0) /\ Clipboard(c, f) /\ RelayObs
    \/ \E c \in 1..RelayConns, f \in AnnounceFrames("file-start") :
            Budget(c, 0) /\ FileStart(c, f) /\ RelayObs
    \/ \E c \in 1..RelayConns, f \in ChunkFrames \cup ForgedFrames("file-chunk") :
            Budget(c, 0) /\ FileChunk(c, f) /\ RelayObs
    \/ \E c \in 1..RelayConns, f \in InvalidFrames : Budget(c, 0) /\ Invalid(c, f) /\ RelayObs
    \/ \E c \in 1..RelayConns : Close(c) /\ RelayObs
    \/ Flush /\ RelayObs

SpecRelay == Init /\ [][NextRelay]_vars

\* Timers: SweepConns sockets, the clock, the idle sweep and the heartbeat.
SweepConns == 2

NextSweep ==
    \/ \E c \in 1..SweepConns : Connect(c) /\ NoObs
    \/ \E c \in 1..SweepConns : \E f \in JoinFrames(c) : Budget(c, 0) /\ Join(c, f) /\ NoObs
    \/ \E c \in 1..SweepConns : Budget(c, 0) /\ \E f \in CreateFrames(c) : Create(c, f) /\ NoObs
    \/ \E c \in 1..SweepConns, f \in LeaveFrames : Budget(c, 0) /\ Leave(c, f) /\ NoObs
    \/ \E c \in 1..SweepConns, f \in TextFrames : Budget(c, 0) /\ Clipboard(c, f) /\ NoObs
    \/ \E c \in 1..SweepConns : Pong(c) /\ NoObs
    \/ \E c \in 1..SweepConns : Close(c) /\ NoObs
    \/ Heartbeat /\ NoObs
    \/ Sweep /\ NoObs
    \/ Tick /\ NoObs
    \/ Flush /\ NoObs

SpecSweep == Init /\ [][NextSweep]_vars

\* Rate limiter: RateConns sockets, the clock, and frames of every kind (one
\* room id, one file id), up to MaxOver frames past the budget of a window.
RateConns == 2
RateObs == WindowStep /\ UNCHANGED <<tally, pending, interrupted, clientVars>>
RateJoinFrames(c) == {f \in JoinFrames(c) : f.roomId = LowerRoomIdOf(1)}
RateFileFrames ==
    {f \in AnnounceFrames("file-start") :
        f.fileId = FileIdNames[1] /\ f.fileName = ShortName /\ f.fileSize = NumChunks}

NextRate ==
    \/ \E c \in 1..RateConns : Connect(c) /\ RateObs
    \/ \E c \in 1..RateConns : \E f \in RateJoinFrames(c) :
            Budget(c, MaxOver) /\ Join(c, f) /\ RateObs
    \/ \E c \in 1..RateConns, f \in LeaveFrames : Budget(c, MaxOver) /\ Leave(c, f) /\ RateObs
    \/ \E c \in 1..RateConns, f \in TextFrames :
            Budget(c, MaxOver) /\ Clipboard(c, f) /\ RateObs
    \/ \E c \in 1..RateConns, f \in RateFileFrames :
            Budget(c, MaxOver) /\ FileStart(c, f) /\ RateObs
    \/ \E c \in 1..RateConns, f \in {Malformed} :
            Budget(c, MaxOver) /\ Invalid(c, f) /\ RateObs
    \/ Tick /\ RateObs
    \/ Flush /\ RateObs

SpecRate == Init /\ [][NextRate]_vars




\* Transfers across the idle sweep: StaleConns sockets, one room id and one
\* file id, the clock and the sweep.  A socket the sweep has closed can still
\* deliver frames until its close event is handled.
StaleConns == 2
StaleChunkFrames ==
    {f \in ChunkFrames : f.fileId = FileIdNames[1] /\ f.chunkIndex \in 0..(NumChunks - 1)}

NextStale ==
    \/ \E c \in 1..StaleConns : Connect(c) /\ RelayObs
    \/ \E c \in 1..StaleConns : \E f \in RateJoinFrames(c) :
            Budget(c, 0) /\ Join(c, f) /\ RelayObs
    \/ \E c \in 1..StaleConns, f \in LeaveFrames : Budget(c, 0) /\ Leave(c, f) /\ RelayObs
    \/ \E c \in 1..StaleConns, f \in RateFileFrames :
            Budget(c, 0) /\ FileStart(c, f) /\ RelayObs
    \/ \E c \in 1..StaleConns, f \in StaleChunkFrames :
            Budget(c, 0) /\ FileChunk(c, f) /\ RelayObs
    \/ \E c \in 1..StaleConns : Close(c) /\ RelayObs
    \/ Sweep /\ RelayObs
    \/ Tick /\ RelayObs
    \/ Flush /\ RelayObs

SpecStale == Init /\ [][NextStale]_vars

\* File transfer between two clients: the sender uploads one file of Files,
\* the relay stamps and forwards, and the receiver is handed the chunks that
\* were sent in any order, any number of times.
InitTransferSpec ==
    /\ InitRelay /\ InitGhosts
    /\ file \in Files
    /\ InitTransfer
    /\ keyPair = NoKeyPair
    /\ peerKeyPair = NoKeyPair
    /\ InitE2ee
    /\ InitOrder
    /\ isSecureContext = TRUE
    /\ initialRoomId = NoRoom
    /\ InitSession

TransferObs == UNCHANGED <<relayVars, ghostVars, e2eeVars, orderVars, sessionVars>>

NextTransfer ==
    \/ UploadFile /\ TransferObs
    \/ SendChunk /\ TransferObs
    \/ UploadDone /\ TransferObs
    \/ ReceiveClipboard /\ TransferObs
    \/ ReceiveFileChunk /\ TransferObs

SpecTransfer == InitTransferSpec /\ [][NextTransfer]_vars

\* File transfer as above, with what can go wrong on the way: chunks that are
\* not base-64, the uploader leaving mid-transfer, and an error message that
\* names the file.
ReceiveByteValues == {0, 255}
ReceiveFiles == SeqsUpTo(ReceiveByteValues, MaxFileSize)
InitReceiveSpec ==
    /\ InitTransferSpec
    /\ file \in ReceiveFiles

NextReceive ==
    \/ NextTransfer
    \/ SendBadChunk /\ TransferObs
    \/ UploaderLeaves /\ TransferObs
    \/ ReceiveFileCancel /\ TransferObs
    \/ ReceiveError /\ TransferObs

SpecReceive == InitReceiveSpec /\ [][NextReceive]_vars

\* End-to-end encryption between two clients with generated key pairs: one
\* message of Messages is encrypted by the sender and decrypted by the peer.
InitE2eeSpec ==
    /\ InitRelay /\ InitGhosts
    /\ file = <<>>
    /\ InitTransfer
    /\ keyPair \in generateE2eeKeyPair
    /\ peerKeyPair \in generateE2eeKeyPair
    /\ content \in Messages
    /\ encryptedContent = <<>>
    /\ decrypted = NotYet
    /\ nonce = <<>>
    /\ InitOrder
    /\ isSecureContext = TRUE
    /\ initialRoomId = NoRoom
    /\ InitSession

E2eeObs == UNCHANGED <<relayVars, ghostVars, transferVars, orderVars, sessionVars>>

NextE2ee ==
    \/ EncryptFor /\ E2eeObs
    \/ DecryptFrom /\ E2eeObs

SpecE2ee == InitE2eeSpec /\ [][NextE2ee]_vars

\* Decryption of what did not arrive as it was sent: the payload of SpecE2ee
\* with one character replaced, cut short, or decrypted with another key pair.
NextTamper ==
    \/ EncryptFor /\ E2eeObs
    \/ Corrupt /\ E2eeObs
    \/ Truncate /\ E2eeObs
    \/ OtherKeyPair /\ E2eeObs
    \/ DecryptFrom /\ E2eeObs

InitTamper == InitE2eeSpec /\ Len(content) < MaxMessageLen

SpecTamper == InitTamper /\ [][NextTamper]_vars

\* Order of relay: OrderConns sockets in one room; each client writes numbered
\* texts to its socket, the relay handles the frames of each socket as they
\* arrived, in any interleaving across sockets.
OrderConns == 3
OrderObs == UNCHANGED <<ghostVars, transferVars, e2eeVars, sessionVars>>
OrderKept == UNCHANGED orderVars

NextOrder ==
    \/ \E c \in 1..OrderConns : Connect(c) /\ OrderKept /\ OrderObs
    \/ \E c \in 1..OrderConns : \E f \in RateJoinFrames(c) :
            Budget(c, 0) /\ Join(c, f) /\ OrderKept /\ OrderObs
    \/ \E c \in 1..OrderConns : Transmit(c) /\ OrderObs
    \/ \E c \in 1..OrderConns : Budget(c, 0) /\ Receive(c) /\ OrderObs
    \/ \E c \in 1..OrderConns : CloseInbound(c) /\ OrderObs
    \/ Flush /\ OrderKept /\ OrderObs

SpecOrder == Init /\ [][NextOrder]_vars

\* A page and its peers: the hook initialises, connects, joins by URL or by
\* joinRoom or createRoom, sends texts, loses its socket and reconnects, while
\* other clients join, send and close.
InitSessionSpec ==
    /\ InitRelay /\ InitGhosts
    /\ file = <<>>
    /\ InitTransfer
    /\ keyPair = NoKeyPair
    /\ peerKeyPair = NoKeyPair
    /\ InitE2ee
    /\ InitOrder
    /\ isSecureContext \in BOOLEAN
    /\ initialRoomId \in {NoRoom, LowerRoomIdOf(1)}
    /\ InitSession

\* The pair localStorage holds in this browser profile
StoredKeyPair == CHOOSE pair \in generateE2eeKeyPair : pair.privateKey.d = 1

SessionObs ==
    UNCHANGED <<ghostVars, transferVars, peerKeyPair, content, encryptedContent,
                decrypted, nonce>>

NextSession ==
    \/ InitKeyPair({StoredKeyPair}, {FALSE}) /\ SessionObs
    \/ \E c \in Conns : SocketOpen(c) /\ SessionObs
    \/ SocketDrops /\ SessionObs
    \/ ReconnectTimer /\ SessionObs
    \/ \E r \in {RoomIdOf(1)} : JoinRoom(r) /\ SessionObs
    \/ CreateRoom /\ SessionObs
    \/ SendText /\ SessionObs
    \/ \E c \in Conns : Handle(c) /\ SessionObs
    \/ \E c \in Conns : PeerConnect(c) /\ SessionObs
    \/ \E c \in Conns : IsPeer(c) /\ \E f \in PeerJoinFrames(c) : PeerJoin(c, f) /\ SessionObs
    \/ \E c \in Conns : \E f \in PeerTextFrames(c) : PeerText(c, f) /\ SessionObs
    \/ \E c \in Conns : PeerClose(c) /\ SessionObs
    \/ SessionFlush /\ SessionObs

SpecSession == InitSessionSpec /\ [][NextSession]_vars

\* Reconnection: the page alone, with connection attempts that fail, sockets
\* that drop, and the reconnect timer; up to MaxAttempts closes in a row.
NextReconnect ==
    \/ InitKeyPair(generateE2eeKeyPair, BOOLEAN) /\ SessionObs
    \/ \E c \in Conns : SocketOpen(c) /\ SessionObs
    \/ ConnectFails /\ SessionObs
    \/ SocketDrops /\ SessionObs
    \/ ReconnectTimer /\ SessionObs
    \/ \E c \in Conns : Handle(c) /\ SessionObs
    \/ SessionFlush /\ SessionObs

SpecReconnect == InitSessionSpec /\ [][NextReconnect]_vars

\* The life of the connect effect: the page connects, its sockets open, drop
\* and reconnect, the hook is rendered with another room id (the effect closes
\* its socket and connects anew), and the component unmounts; the close events
\* of the sockets the cleanup closed arrive later.
LifeRoomIds == {NoRoom, LowerRoomIdOf(1)}
NextLifecycle ==
    \/ InitKeyPair({StoredKeyPair}, {FALSE}) /\ SessionObs
    \/ \E c \in Conns : SocketOpen(c) /\ SessionObs
    \/ SocketDrops /\ SessionObs
    \/ ReconnectTimer /\ SessionObs
    \/ \E r \in LifeRoomIds : EffectReruns(r) /\ SessionObs
    \/ \E c \in Conns \cup {NoConn} : ReplacedSocketCloses(c) /\ SessionObs
    \/ Unmount /\ SessionObs
    \/ ClosedSocketCloses /\ SessionObs
    \/ \E c \in Conns : Handle(c) /\ SessionObs
    \/ SessionFlush /\ SessionObs

SpecLifecycle == InitSessionSpec /\ [][NextLifecycle]_vars

\* Disconnects with transfers under way: ReapConns sockets, two room ids, one
\* file id; sockets close, miss heartbeats and are reaped.
ReapConns == 3
ReapJoinFrames(c) == {f \in JoinFrames(c) : \E i \in 1..NumRoomIds : f.roomId = LowerRoomIdOf(i)}

NextReap ==
    \/ \E c \in 1..ReapConns : Connect(c) /\ NoObs
    \/ \E c \in 1..ReapConns : \E f \in ReapJoinFrames(c) : Budget(c, 0) /\ Join(c, f) /\ NoObs
    \/ \E c \in 1..ReapConns, f \in RateFileFrames : Budget(c, 0) /\ FileStart(c, f) /\ NoObs
    \/ \E c \in 1..ReapConns : Pong(c) /\ NoObs
    \/ \E c \in 1..ReapConns : Close(c) /\ NoObs
    \/ Heartbeat /\ NoObs
    \/ Flush /\ NoObs

SpecReap == Init /\ [][NextReap]_vars

\* An upload seen end to end: the uploader and one receiver join a room, the
\* uploader's announcement and chunks go through the relay's handlers, and the
\* receiver's socket hands it the relayed messages in the order they were
\* written.  The clock advances so that the uploader's frames fit its rate
\* budget; the uploader may disconnect once its upload has run to the end.
UploadConns == 2
UploadReceiver == CHOOSE c \in 1..UploadConns : c # Uploader
UploadObs == UNCHANGED <<ghostVars, e2eeVars, orderVars, sessionVars>>
\* the relayed copies the handler wrote to the receiver's socket
RelayedToReceiver(S) ==
    {S.out[i].msg : i \in {j \in DOMAIN S.out :
        /\ S.out[j].op = "send" /\ S.out[j].to = UploadReceiver
        /\ S.out[j].msg.type \in {"clipboard", "file-chunk"}}}

\* one ws.send of uploadFile, handled by the relay's ws.on('message')
UploadSend(frame) ==
    /\ ws[Uploader].readyState = "OPEN"
    /\ ws[Uploader].roomId # NoRoom
    /\ Budget(Uploader, 0)
    /\ LET S == onMessage(State, Uploader, frame)
       IN  /\ Commit(S, "message", Uploader, frame)
           /\ wire' = wire \cup RelayedToReceiver(S)

\* uploadFile up to its first await
UploadAnnounce ==
    /\ upload.stage = "idle"
    /\ UploadSend(startMessage(file, UploadFileId))
    /\ upload' = [stage |-> "sending", i |-> 0]
    /\ UNCHANGED <<file, incomingFiles, updates, arrived>>

\* one iteration of the loop of uploadFile
UploadChunk ==
    /\ upload.stage = "sending"
    /\ upload.i < totalChunksOf(file)
    /\ UploadSend(chunkMessage(file, UploadFileId, upload.i))
    /\ upload' = [upload EXCEPT !.i = @ + 1]
    /\ UNCHANGED <<file, incomingFiles, updates, arrived>>

\* the receiver's onmessage fires for the next message of its socket: the
\* announcement, then the chunks in the order the relay wrote them
DeliverNext ==
    \E m \in wire :
        /\ IF m.type = "clipboard" THEN ~arrived.announced
           ELSE /\ \A a \in wire : a.type = "clipboard" => arrived.announced
                /\ m.chunkIndex \notin arrived.chunks
                /\ \A k \in wire : (k.type = "file-chunk" /\ k.chunkIndex < m.chunkIndex)
                                       => k.chunkIndex \in arrived.chunks
        /\ LET R == onMessageRef(Receiver, m)
           IN  incomingFiles' = R.incomingFiles /\ updates' = R.updates
        /\ arrived' = IF m.type = "clipboard"
                      THEN [arrived EXCEPT !.announced = TRUE, !.got = m]
                      ELSE [arrived EXCEPT !.chunks = @ \cup {m.chunkIndex}, !.got = m]
        /\ UNCHANGED <<file, upload, wire>>

\* the uploader disconnects after its upload has run to the end
UploaderCloses ==
    /\ upload.stage = "done"
    /\ Close(Uploader)

\* one file of each size from 0 to MaxFileSize bytes
UploadBytes == <<0, 77, 255, 0, 77>>
UploadFiles == {SubSeq(UploadBytes, 1, n) : n \in 0..MaxFileSize}
InitUploadSpec ==
    /\ InitTransferSpec
    /\ file \in UploadFiles

NextUpload ==
    \/ \E c \in 1..UploadConns : Connect(c) /\ UNCHANGED transferVars /\ UploadObs
    \/ \E c \in 1..UploadConns : \E f \in RateJoinFrames(c) :
            Budget(c, 0) /\ Join(c, f) /\ UNCHANGED transferVars /\ UploadObs
    \/ UploadAnnounce /\ UploadObs
    \/ UploadChunk /\ UploadObs
    \/ UploadDone /\ TransferObs
    \/ DeliverNext /\ TransferObs
    \/ UploaderCloses /\ UNCHANGED transferVars /\ UploadObs
    \/ Tick /\ UNCHANGED transferVars /\ UploadObs
    \/ Flush /\ UNCHANGED transferVars /\ UploadObs

SpecUpload == InitUploadSpec /\ [][NextUpload]_vars

\* The event loops run: a handler that has returned is followed by the flush
\* of its writes, and a message that has reached the receiver's socket is
\* handed to onmessage.
SpecUploadLive ==
    /\ InitUploadSpec /\ [][NextUpload]_vars
    /\ WF_vars(DeliverNext /\ TransferObs)
    /\ WF_vars(Flush /\ UNCHANGED transferVars /\ UploadObs)

\* The promises of the start page: the page calls createRoom and joinRoom as
\* often as it likes without waiting for the reply, its frames queue at the
\* relay, and the relay answers them in order, up to MaxOver frames past the
\* rate budget.  The id the page joins is well-formed or too short.  The page
\* has PromiseConns sockets in its life: a reload after the last one stays
\* disconnected.
PromiseConns == 1
MaxPromises == 4
MaxQueue == 2
PromiseRoomIds == {RoomIdOf(1), <<"a", "b", "1">>}

CanCall ==
    /\ socket.readyState = "OPEN"
    /\ Len(inbound[socket.conn]) < MaxQueue
    /\ Len(promises) < MaxPromises

CallJoinRoom(roomId) ==
    /\ CanCall
    /\ HookStep(joinRoom(Hook, roomId), probe.closes, probe.wasIn, "joinRoom")

CallCreateRoom ==
    /\ CanCall
    /\ HookStep(createRoom(Hook), probe.closes, probe.wasIn, "createRoom")

\* the relay handles the next frame of a socket, within the rate budget or
\* past it
HandleNext(c) ==
    /\ inbound[c] # <<>>
    /\ Budget(c, MaxOver)
    /\ LET frame == parseFrame(Head(inbound[c]))
       IN  IF frame.type = "create" THEN Create(c, frame) ELSE OnMessage(c, frame)
    /\ inbound' = [inbound EXCEPT ![c] = Tail(@)]
    /\ RelayStep

InitPromiseSpec ==
    /\ InitSessionSpec
    /\ initialRoomId = NoRoom

NextPromise ==
    \/ InitKeyPair({StoredKeyPair}, {FALSE}) /\ SessionObs
    \/ \E c \in 1..PromiseConns : SocketOpen(c) /\ SessionObs
    \/ \E r \in PromiseRoomIds : CallJoinRoom(r) /\ SessionObs
    \/ CallCreateRoom /\ SessionObs
    \/ \E c \in 1..PromiseConns : HandleNext(c) /\ SessionObs
    \/ SessionFlush /\ SessionObs

SpecPromise == InitPromiseSpec /\ [][NextPromise]_vars

\* The relay's event loop runs: a frame that has arrived is handled, and the
\* handler's writes are delivered.
SpecPromiseLive ==
    /\ InitPromiseSpec /\ [][NextPromise]_vars
    /\ WF_vars(\E c \in 1..PromiseConns : HandleNext(c) /\ SessionObs)
    /\ WF_vars(SessionFlush /\ SessionObs)

\* ================================================================= claims
\* What the sockets were handed in the last event
Sent(c, msg) == \E i \in DOMAIN out : out[i] = [op |-> "send", to |-> c, msg |-> msg]
IsOpen(c) == ws[c].readyState = "OPEN"
RelayTypes == {"clipboard", "file-start", "file-chunk"}
\* The sockets a relayed copy of the last frame was written to
RelayedTo ==
    {out[i].to : i \in {j \in DOMAIN out :
                            out[j].op = "send" /\ out[j].msg.type \in RelayTypes}}
\* The upper-case id a valid join id stands for, read off the table of ids
CanonicalId(raw) ==
    CHOOSE g \in GenRoomIds :
        \E i \in 1..NumRoomIds : g = RoomIdOf(i) /\ raw \in {RoomIdOf(i), LowerRoomIdOf(i)}
IsValidId(raw) == \E i \in 1..NumRoomIds : raw \in {RoomIdOf(i), LowerRoomIdOf(i)}
IsJoin(e) == e.op = "message" /\ e.frame.type = "join"

\* C1: a clipboard, file-start or file-chunk frame is never written back to
\* the socket it came from, whatever the rooms look like.
C1_NoEcho ==
    (last.op = "message" /\ last.frame.type \in RelayTypes) => last.ws \notin RelayedTo

\* C1 witness: a file-chunk was relayed to the other member of the sender's room.
C1_Witness ==
    /\ last.op = "message" /\ last.frame.type = "file-chunk" /\ last.res = "relayed"
    /\ RelayedTo # {}
    /\ last.ws \in Members(rooms[ws[last.ws].roomId])

\* The sockets the last event removed from the roster of room r
LeftRoom(e, r) == {e.ev[i].ws : i \in {j \in DOMAIN e.ev : e.ev[j].e = "leave" /\ e.ev[j].room = r}}

\* C2: every room in the table has at least one member, after every kind of
\* step; and a room goes from the table only in the step in which its last
\* members left or closed, or in a sweep that found it idle.
C2_RoomIffMember ==
    /\ [](\A r \in DOMAIN rooms : Cardinality(Members(rooms[r])) >= 1)
    /\ [][\A r \in DOMAIN rooms \ DOMAIN rooms' :
            IF last'.op = "sweep"
            THEN now - rooms[r].lastActivity > MAX_ROOM_INACTIVITY
            ELSE Members(rooms[r]) \subseteq LeftRoom(last', r)]_vars

\* C2 witness: the last member of a room has just left and the room is gone.
C2_Witness ==
    /\ last.ev # <<>>
    /\ last.ev[Len(last.ev)].e = "delete"
    /\ last.ev[Len(last.ev)].room \notin DOMAIN rooms

\* C3: with N joins and M leaves counted on a room since it was created, the
\* room has N - M members while it exists, and it is gone iff N = M.
C3_CountIsJoinsMinusLeaves ==
    \A r \in GenRoomIds :
        /\ r \in DOMAIN rooms => Len(rooms[r].clients) = tally[r].joins - tally[r].leaves
        /\ r \notin DOMAIN rooms <=> tally[r].joins - tally[r].leaves = 0

\* C3 witness: two joins and one leave on a room that now has one member.
C3_Witness ==
    \E r \in DOMAIN rooms :
        tally[r].joins = 2 /\ tally[r].leaves = 1 /\ Len(rooms[r].clients) = 1

\* C4: a join that names a valid id no other socket uses leaves a room under
\* the upper-cased id whose roster is exactly the joiner.
C4_JoinCreates ==
    [][\A c \in Conns :
        (/\ IsJoin(last') /\ last'.ws = c /\ last'.res # "RATE_LIMITED"
         /\ IsValidId(last'.frame.roomId)
         /\ LET id == CanonicalId(last'.frame.roomId)
            IN  id \in DOMAIN rooms => Members(rooms[id]) = {c})
        => LET id == CanonicalId(last'.frame.roomId)
           IN  /\ id \in DOMAIN rooms'
               /\ rooms'[id].clients = <<[ws |-> c, publicKey |-> last'.frame.publicKey]>>
               /\ ws'[c].roomId = id
               /\ last'.res = "joined"]_vars

\* C4 witness: the sole member of a room joined the same id again, written in
\* lower case: the room was deleted and created anew.
C4_Witness ==
    /\ IsJoin(last) /\ last.res = "joined"
    /\ last.frame.roomId = LowerRoomIdOf(1)
    /\ Len(last.ev) = 4
    /\ last.ev[1].e = "leave" /\ last.ev[1].room = RoomIdOf(1)
    /\ last.ev[3].e = "create" /\ last.ev[3].room = RoomIdOf(1)

\* C5: a successful join puts the joiner in the room of the upper-cased id (no
\* room exists under another spelling) and every member with an open socket,
\* the joiner included, is sent a room-update with the roster and its size.
C5_JoinAnnounced ==
    (IsJoin(last) /\ last.res = "joined") =>
        LET id == CanonicalId(last.frame.roomId) IN
        /\ DOMAIN rooms \subseteq GenRoomIds
        /\ id \in DOMAIN rooms
        /\ last.ws \in Members(rooms[id])
        /\ \A m \in Members(rooms[id]) :
              IsOpen(m) =>
                 Sent(m, [type |-> "room-update", roomId |-> id,
                          clients |-> [i \in DOMAIN rooms[id].clients |->
                                          [id |-> rooms[id].clients[i].ws,
                                           publicKey |-> rooms[id].clients[i].publicKey]],
                          clientCount |-> Cardinality(Members(rooms[id]))])

\* C5 witness: B joined, in lower case, the room A holds; both were sent a
\* room-update with clientCount 2.
C5_Witness ==
    /\ IsJoin(last) /\ last.res = "joined"
    /\ last.frame.roomId = LowerRoomIdOf(1)
    /\ Cardinality(Members(rooms[RoomIdOf(1)])) = 2
    /\ \A m \in Members(rooms[RoomIdOf(1)]) :
          \E i \in DOMAIN out : /\ out[i].to = m /\ out[i].op = "send"
                                /\ out[i].msg.type = "room-update"
                                /\ out[i].msg.clientCount = 2

\* C6: when a socket closes with transfers it announced and did not finish,
\* every remaining member of its room is sent a file-cancel with the fileId
\* and the sender's id.
C6_CancelOnDisconnect ==
    (last.op = "close" /\ interrupted.room \in DOMAIN rooms) =>
        \A m \in Members(rooms[interrupted.room]), p \in interrupted.transfers :
            IsOpen(m) =>
                Sent(m, [type |-> "file-cancel", fileId |-> p.fileId, senderId |-> last.ws])

\* C6 witness: a socket closed after an announcement and one chunk, both relayed
\* to the room its roomId names; an open socket is a member of that room and
\* was sent no file-cancel.
C6_Witness ==
    /\ last.op = "close"
    /\ \E p \in interrupted.transfers : p.chunks = 1
    /\ interrupted.room \in DOMAIN rooms
    /\ \E m \in Members(rooms[interrupted.room]) : IsOpen(m)
    /\ out = <<>>

\* C7: the sweep removes every room idle for longer than the threshold, and
\* each member with an open socket is sent room-closed before close().
C7_IdleSweep ==
    [][last'.op = "sweep" =>
        \A r \in DOMAIN rooms :
            now - rooms[r].lastActivity > MAX_ROOM_INACTIVITY =>
                /\ r \notin DOMAIN rooms'
                /\ \A m \in Members(rooms[r]) :
                      IsOpen(m) =>
                        /\ ws'[m].readyState = "CLOSING"
                        /\ \E i, j \in DOMAIN out' :
                              /\ i < j
                              /\ out'[i] = [op |-> "send", to |-> m,
                                            msg |-> [type |-> "room-closed",
                                                     reason |-> "inactivity"]]
                              /\ out'[j] = [op |-> "close", to |-> m]]_vars

\* C7 witness: a sweep closed a room of two members.
C7_Witness ==
    /\ last.op = "sweep"
    /\ Len(last.ev) = 1
    /\ Len(out) = 4
    /\ out[3].msg.type = "room-closed"

Completions == SelectSeq(updates, LAMBDA u : u.type = "file-complete")

\* C9: once the upload has run to its end and the announcement and every chunk
\* of the file have reached the receiver (in whatever order, however often),
\* the receiver has been handed exactly one file-complete, and its buffer is
\* the file, byte for byte.
C9_RoundTrip ==
    (/\ upload.stage = "done"
     /\ arrived.announced
     /\ arrived.chunks = {i \in 0..(totalChunksOf(file) - 1) : TRUE})
    => Completions = <<[type |-> "file-complete", fileId |-> UploadFileId, content |-> file]>>

\* C9, for files of at least one byte: delivery of all chunks yields the file.
C9_RoundTripNonEmpty ==
    (/\ Len(file) >= 1
     /\ arrived.announced
     /\ arrived.chunks = {i \in 0..(totalChunksOf(file) - 1) : TRUE})
    => Completions = <<[type |-> "file-complete", fileId |-> UploadFileId, content |-> file]>>

\* C9 witness: an upload of an empty file has run to its end, its announcement
\* has arrived, and the receiver holds a slot array it will never complete.
C9_Witness ==
    /\ file = <<>>
    /\ upload.stage = "done"
    /\ arrived.announced
    /\ UploadFileId \in DOMAIN incomingFiles
    /\ updates = <<>>

\* C10: what the peer decrypts is the message the sender encrypted, for every
\* message and every two key pairs.
C10_RoundTrip ==
    decrypted.done => decrypted.value = [ok |-> TRUE, text |-> content]

\* C10, key agreement and nonce: both sides derive the same key, and the peer
\* splits off the nonce the sender prepended.
C10_KeyAndNonce ==
    /\ keyPair # NoKeyPair =>
          deriveSharedSecret(keyPair.privateKey, peerKeyPair.publicKey)
            = deriveSharedSecret(peerKeyPair.privateKey, keyPair.publicKey)
    /\ encryptedContent # <<>> => SubSeq(atob(encryptedContent), 1, IV_LENGTH) = nonce
    /\ decrypted.done => decrypted.value.ok

\* C10 witness: a message that starts with a byte order mark came back without it.
C10_Witness ==
    /\ decrypted.done
    /\ content = <<BOM, 65>>
    /\ decrypted.value = [ok |-> TRUE, text |-> <<65>>]

\* C11: decryptFrom gives null whenever the bytes it is handed are not the
\* bytes encryptFor produced for the receiver's key pair (another key pair, a
\* replaced character, a payload cut short), and the call changes nothing but
\* its own result.
C11_DecryptFailsToNull ==
    /\ []((decrypted.done /\ ~Intact) => decrypted.value = Null)
    /\ [][decrypted' # decrypted =>
            UNCHANGED <<relayVars, transferVars, keyPair, peerKeyPair, content,
                        encryptedContent, nonce>>]_vars

\* C11 witness: a payload cut to its nonce and part of the ciphertext was
\* decrypted to null.
C11_Witness ==
    /\ decrypted.done /\ decrypted.value = Null
    /\ Len(encryptedContent) > IV_LENGTH + TAG_LENGTH
    /\ encryptedContent = SubSeq(btoa(Untouched), 1, Len(encryptedContent))
    /\ encryptedContent # btoa(Untouched)
    /\ ~atobThrows(encryptedContent)

\* C12: a join that finds MAX_ROOM_SIZE other members in the room it names is
\* answered ROOM_FULL and leaves the roster of that room as it was, without
\* the joiner; and no room ever has more than MAX_ROOM_SIZE members.
C12_RoomFull ==
    /\ [](\A r \in DOMAIN rooms : Cardinality(Members(rooms[r])) <= MAX_ROOM_SIZE
                                    /\ Len(rooms[r].clients) <= MAX_ROOM_SIZE)
    /\ [][\A c \in Conns :
            (/\ IsJoin(last') /\ last'.ws = c /\ last'.res # "RATE_LIMITED"
             /\ IsValidId(last'.frame.roomId)
             /\ LET id == CanonicalId(last'.frame.roomId)
                IN  /\ id \in DOMAIN rooms
                    /\ Cardinality(Members(rooms[id]) \ {c}) >= MAX_ROOM_SIZE)
            => LET id == CanonicalId(last'.frame.roomId)
               IN  /\ last'.res = "ROOM_FULL"
                   /\ IsOpen(c) =>
                        /\ out' # <<>>
                        /\ out'[Len(out')] =
                                [op |-> "send", to |-> c,
                                 msg |-> [type |-> "error", code |-> "ROOM_FULL"]]
                   /\ id \in DOMAIN rooms'
                   /\ rooms'[id].clients = rooms[id].clients
                   /\ c \notin Members(rooms'[id])
                   /\ ws'[c].roomId # id]_vars

\* C12 witness: a third socket was refused by a room that holds MAX_ROOM_SIZE
\* members.
C12_Witness ==
    /\ IsJoin(last) /\ last.res = "ROOM_FULL"
    /\ \E r \in DOMAIN rooms :
          /\ Cardinality(Members(rooms[r])) = MAX_ROOM_SIZE
          /\ last.ws \notin Members(rooms[r])
          /\ r = CanonicalId(last.frame.roomId)

\* The room-update messages the last handler wrote to socket c, in order
UpdatesTo(c) ==
    SelectSeq(out, LAMBDA o : o.op = "send" /\ o.to = c /\ o.msg.type = "room-update")

\* C13: after a successful create or join of a socket, the first room-update
\* written to that socket carries the socket's own id as clientId.
C13_ClientIdOnEntry ==
    (last.op = "message" /\ last.res \in {"joined", "created"} /\ IsOpen(last.ws)) =>
        /\ UpdatesTo(last.ws) # <<>>
        /\ Field(UpdatesTo(last.ws)[1].msg, "clientId", NoConn) = last.ws

\* C13, for create alone: the creator's room-update carries its id.
C13_ClientIdOnCreate ==
    (last.op = "message" /\ last.res = "created" /\ IsOpen(last.ws)) =>
        /\ UpdatesTo(last.ws) # <<>>
        /\ Field(UpdatesTo(last.ws)[1].msg, "clientId", NoConn) = last.ws

\* C13 witness: a socket joined a room another socket holds; the one
\* room-update it was written has no clientId.
C13_Witness ==
    /\ IsJoin(last) /\ last.res = "joined" /\ IsOpen(last.ws)
    /\ Cardinality(Members(rooms[ws[last.ws].roomId])) = 2
    /\ Len(UpdatesTo(last.ws)) = 1
    /\ "clientId" \notin DOMAIN UpdatesTo(last.ws)[1].msg

\* C14: a clipboard, file-start or file-chunk frame is written only to members
\* of a room its sender is a member of when the frame is handled, and it
\* changes no room the sender is not a member of.
C14_Isolation ==
    [][(last'.op = "message" /\ last'.frame.type \in RelayTypes) =>
        LET c == last'.ws IN
        /\ \A m \in RelayedTo' :
              \E r \in DOMAIN rooms : c \in Members(rooms[r]) /\ m \in Members(rooms[r])
        /\ \A r \in DOMAIN rooms :
              c \notin Members(rooms[r]) => r \in DOMAIN rooms' /\ rooms'[r] = rooms[r]]_vars

\* C14 witness: a frame of a socket that is in no roster was relayed to the
\* member of the room the sender's roomId still names, and its fileId is
\* recorded in that room.
C14_Witness ==
    /\ last.op = "message" /\ last.frame.type = "file-start" /\ last.res = "relayed"
    /\ \A r \in DOMAIN rooms : last.ws \notin Members(rooms[r])
    /\ RelayedTo # {}
    /\ last.ws \in DOMAIN rooms[ws[last.ws].roomId].activeTransfers

\* C15: in the stream of every socket, the texts relayed from one sender
\* appear in the order the sender wrote them (the n-th before the n+1-th).
C15_SenderOrder ==
    \A r \in Conns : \A i, j \in DOMAIN delivered[r] :
        (i < j /\ delivered[r][i].senderId = delivered[r][j].senderId)
            => delivered[r][i].content < delivered[r][j].content

\* C15 witness: a socket was written both texts of one sender and then, after
\* that sender had gone and another had joined, both texts of the other.
C15_Witness ==
    \E r \in Conns :
        /\ Len(delivered[r]) = 2 * MaxSent
        /\ delivered[r][1].senderId = delivered[r][2].senderId
        /\ delivered[r][3].senderId = delivered[r][4].senderId
        /\ delivered[r][1].senderId # delivered[r][3].senderId
        /\ delivered[r][1].content = 1 /\ delivered[r][2].content = 2
        /\ transmitted[r] = MaxSent

\* The delays of the claim: 3000, 6000, 12000, 24000, then 30000 for good
Backoff(k) == IF k <= 4 THEN <<3000, 6000, 12000, 24000>>[k] ELSE 30000

Opens == socket.readyState = "CONNECTING" /\ socket'.readyState = "OPEN"
\* the hook sent a join for room r in the last step
SentJoinFor(p, r) ==
    \E i \in DOMAIN p.sent :
        /\ p.sent[i].type = "join"
        /\ IsValidId(p.sent[i].roomId) /\ CanonicalId(p.sent[i].roomId) = r

\* C17: when the socket opens again after a disconnect that found the hook in
\* a room, the hook sends a join for that room, however it had entered it.
C17_JoinReplayed ==
    [][(Opens /\ probe.wasIn # NoRoom) => SentJoinFor(probe', probe.wasIn)]_vars

\* C17, for a page whose URL names the room: the join is sent again.
C17_JoinReplayedFromUrl ==
    [][(Opens /\ probe.wasIn # NoRoom /\ initialRoomId # NoRoom)
            => SentJoinFor(probe', probe.wasIn)]_vars

\* C17 witness: the hook entered a room by joinRoom, lost its socket, and is
\* connected again on a new socket that is in no room of the relay; it has
\* sent nothing and still shows the room.
C17_Witness ==
    /\ probe.via = "joinRoom" /\ probe.wasIn # NoRoom
    /\ socket.readyState = "OPEN" /\ probe.closes = 0
    /\ Idle /\ inbound[socket.conn] = <<>>
    /\ ws[socket.conn].roomId = NoRoom
    /\ roomState.roomId = probe.wasIn
    /\ \A r \in DOMAIN rooms : socket.conn \notin Members(rooms[r])

\* C18: in a non-secure context the hook holds no key pair and E2EE is off;
\* once ready it has called connect; its create and join frames have no
\* publicKey; and every text it sends has its plaintext as content and no
\* encryptedContent.
C18_InsecureContext ==
    ~isSecureContext =>
        /\ keyPair = NoKeyPair
        /\ ~isE2eeEnabled
        /\ isReady => socket.readyState # "NONE"
        /\ \A i \in DOMAIN probe.sent :
              LET f == probe.sent[i] IN
              /\ "publicKey" \notin DOMAIN f
              /\ "encryptedContent" \notin DOMAIN f
              /\ f.type = "clipboard" =>
                    "content" \in DOMAIN f /\ f.content \in SessionTexts

\* C18 witness: in a non-secure context the hook, in a room with a member
\* that has a public key, sent a text.
C18_Witness ==
    /\ ~isSecureContext /\ isReady
    /\ probe.sent # <<>> /\ probe.sent[1].type = "clipboard"
    /\ \E i \in DOMAIN roomClients :
          roomClients[i].id # socket.conn /\ roomClients[i].publicKey # NoJwk

\* the roster the hook holds has a member other than the hook's own socket
\* that has a public key
PeerWithKey ==
    \E j \in DOMAIN roomClients :
        roomClients[j].id # socket.conn /\ roomClients[j].publicKey # NoJwk

\* C19: with E2EE on, a key pair held, a room held and a peer with a public
\* key in the roster, every text the hook sends has encryptedContent and no
\* content.
C19_TextEncrypted ==
    \A i \in DOMAIN probe.sent :
        LET f == probe.sent[i] IN
        (/\ f.type = "clipboard"
         /\ isE2eeEnabled /\ keyPair # NoKeyPair
         /\ roomState.roomId # NoRoom /\ PeerWithKey)
        => ("encryptedContent" \in DOMAIN f /\ "content" \notin DOMAIN f)

\* C19, what holds instead: the hook never sends encryptedContent.
C19_NeverEncrypted ==
    \A i \in DOMAIN probe.sent : "encryptedContent" \notin DOMAIN probe.sent[i]

\* C19 witness: the hook, with E2EE on and its key pair announced in its join,
\* holds a room with a peer that has a public key, and sent a text in the
\* clear.
C19_Witness ==
    /\ isE2eeEnabled /\ keyPair # NoKeyPair /\ PeerWithKey
    /\ roomState.roomId # NoRoom /\ roomState.clientId = NoConn
    /\ probe.sent # <<>> /\ probe.sent[1].type = "clipboard"
    /\ "content" \in DOMAIN probe.sent[1]
    /\ \E j \in DOMAIN roomClients :
          roomClients[j].id = socket.conn /\ roomClients[j].publicKey = keyPair.publicKey

\* C20: every text message handed to onClipboardReceived has its plaintext as
\* content and no encryptedContent.
C20_HandedDecrypted ==
    \A i \in DOMAIN probe.handed :
        LET m == probe.handed[i] IN
        /\ "content" \in DOMAIN m /\ m.content \in SessionTexts
        /\ "encryptedContent" \notin DOMAIN m

\* C20, for messages that arrive in the clear: they are handed on as they are.
C20_HandedAsArrived ==
    \A i \in DOMAIN probe.handed :
        \E k \in DOMAIN out :
            out[k] = [op |-> "send", to |-> socket.conn, msg |-> probe.handed[i]]

\* C20 witness: onClipboardReceived was handed a message without content whose
\* encryptedContent the hook could have decrypted with its private key and the
\* public key the roster holds for the sender.
C20_Witness ==
    /\ probe.handed # <<>>
    /\ "content" \notin DOMAIN probe.handed[1]
    /\ "encryptedContent" \in DOMAIN probe.handed[1]
    /\ keyPair # NoKeyPair
    /\ \E j \in DOMAIN roomClients :
          /\ roomClients[j].id = probe.handed[1].senderId
          /\ roomClients[j].publicKey # NoJwk
          /\ decryptFrom(probe.handed[1].encryptedContent, keyPair.privateKey,
                         roomClients[j].publicKey).ok

\* the content-bearing fields of a frame
Payload(frame) ==
    {frame[k] : k \in DOMAIN frame \cap {"content", "encryptedContent", "chunk"}}
\* the file ids socket c has tracked in room
Tracked(room, c) ==
    IF c \in DOMAIN room.activeTransfers THEN Range(room.activeTransfers[c]) ELSE {}

\* C21: handling a clipboard, file-start or file-chunk frame changes nothing of
\* the relay but lastActivity of the sender's room, the sender's tracked file
\* ids there and the sender's rate counter; what is tracked is file ids of the
\* frame, never its content, encryptedContent or chunk.
C21_NoContentStored ==
    [][(last'.op = "message" /\ last'.frame.type \in RelayTypes) =>
        LET c == last'.ws
            frame == last'.frame
        IN  /\ ws' = ws
            /\ DOMAIN rooms' = DOMAIN rooms
            /\ \A r \in DOMAIN rooms :
                  /\ DOMAIN rooms'[r] = {"clients", "lastActivity", "activeTransfers"}
                  /\ rooms'[r].clients = rooms[r].clients
                  /\ rooms'[r].lastActivity \in {rooms[r].lastActivity, now}
                  /\ r # ws[c].roomId => rooms'[r] = rooms[r]
                  /\ \A d \in Conns \ {c} :
                        /\ d \in DOMAIN rooms'[r].activeTransfers
                                <=> d \in DOMAIN rooms[r].activeTransfers
                        /\ d \in DOMAIN rooms[r].activeTransfers =>
                                rooms'[r].activeTransfers[d] = rooms[r].activeTransfers[d]
                  /\ Tracked(rooms'[r], c) \subseteq
                        Tracked(rooms[r], c) \cup {Field(frame, "fileId", NoFile)}
                  /\ Tracked(rooms'[r], c) \cap Payload(frame) = {}
            /\ DOMAIN messageCounters' = DOMAIN messageCounters \cup {c}
            /\ \A d \in DOMAIN messageCounters \ {c} :
                  messageCounters'[d] = messageCounters[d]
            /\ messageCounters'[c].count \in 1..(MESSAGE_RATE_LIMIT + 1)]_vars

\* C21 witness: a text was relayed to the other member while the sender has a
\* transfer tracked in the room.
C21_Witness ==
    /\ last.op = "message" /\ last.frame.type = "clipboard" /\ last.res = "relayed"
    /\ "content" \in DOMAIN last.frame
    /\ RelayedTo # {}
    /\ Tracked(rooms[ws[last.ws].roomId], last.ws) # {}

\* the messages a handler's writes o put on the stream of socket d, in order
StreamTo(o, d) ==
    LET mine == SelectSeq(o, LAMBDA e : e.op = "send" /\ e.to = d)
    IN  [i \in DOMAIN mine |-> mine[i].msg]
\* the file-cancel of transfer f of socket c
FileCancel(f, c) == [type |-> "file-cancel", fileId |-> f, senderId |-> c]
\* the room-update of room r after c has left it
DepartureUpdate(r, c) ==
    LET left == [rooms[r] EXCEPT !.clients = clientsDelete(@, c)]
    IN  [type |-> "room-update", roomId |-> r, clients |-> clientsInRoom(left),
         clientCount |-> Len(left.clients)]
\* c leaves room r in this step, and the room keeps other members
LeavesNonEmpty(c, r) ==
    /\ \E i \in DOMAIN last'.ev : last'.ev[i] = [e |-> "leave", room |-> r, ws |-> c]
    /\ r \in DOMAIN rooms
    /\ Members(rooms[r]) \ {c} # {}

\* C22: when a socket with tracked transfers leaves a room that keeps other
\* members, every remaining open member is written exactly one file-cancel per
\* tracked file id and then the room-update without the leaver; the leaver's
\* tracking entry is gone; the leaver is written neither.
C22_CancelBeforeUpdate ==
    [][\A c \in Conns : \A r \in DOMAIN rooms :
        (LeavesNonEmpty(c, r) /\ Tracked(rooms[r], c) # {}) =>
            /\ r \in DOMAIN rooms'
            /\ c \notin DOMAIN rooms'[r].activeTransfers
            /\ \A d \in Members(rooms[r]) \ {c} :
                  IsOpen(d) =>
                    LET s == StreamTo(out', d)
                        cancels == {i \in DOMAIN s : s[i].type = "file-cancel"}
                    IN  /\ \A f \in Tracked(rooms[r], c) :
                              Cardinality({i \in cancels : s[i] = FileCancel(f, c)}) = 1
                        /\ \A i \in cancels : s[i].fileId \in Tracked(rooms[r], c)
                        /\ \E u \in DOMAIN s :
                              /\ s[u] = DepartureUpdate(r, c)
                              /\ \A i \in cancels : i < u
            /\ LET s == StreamTo(out', c)
               IN  \A i \in DOMAIN s :
                      /\ s[i].type # "file-cancel"
                      /\ s[i] # DepartureUpdate(r, c)]_vars

\* C22 witness: a member that had a transfer tracked left by a leave frame; the
\* other member was written the file-cancel and then the room-update.
C22_Witness ==
    /\ last.op = "message" /\ last.frame.type = "leave"
    /\ \E d \in Conns \ {last.ws} :
          LET s == StreamTo(out, d)
          IN  /\ Len(s) = 2
              /\ s[1].type = "file-cancel" /\ s[1].senderId = last.ws
              /\ s[2].type = "room-update" /\ s[2].clientCount = 1

RECURSIVE leaveEach(_, _)
\* explicit leaves by the sockets cs, one after the other
leaveEach(S, cs) == IF cs = <<>> THEN S ELSE leaveEach(handleLeave(S, Head(cs)), Tail(cs))
\* the sockets the heartbeat finds unresponsive, in the order it visits them
Unresponsive == SelectSeq(wssClients(State), LAMBDA c : ws[c].isAlive = FALSE)
\* the handler's writes o gave the sockets the messages that L gave them, and
\* the room table is that of L
SameCleanup(L, o) ==
    /\ rooms' = L.rooms
    /\ \A d \in Conns : StreamTo(o, d) = StreamTo(L.out, d)

\* C23: the close event of a socket, and the reaping of the sockets that
\* missed a heartbeat, leave the room table (rosters, tracked transfers) and
\* write the file-cancel and room-update messages exactly as explicit leaves
\* by those sockets at that moment would; no other socket is closed.
C23_CloseIsLeave ==
    /\ [][last'.op = "close" =>
            /\ SameCleanup(handleLeave(State, last'.ws), out')
            /\ \A d \in Conns \ {last'.ws} : ws'[d] = ws[d]
            /\ \A i \in DOMAIN out' : out'[i].op = "send"]_vars
    /\ [][last'.op = "heartbeat" =>
            /\ SameCleanup(leaveEach(State, Unresponsive), out')
            /\ \A d \in Conns \ Range(Unresponsive) :
                  ws'[d].readyState = ws[d].readyState /\ ws'[d].roomId = ws[d].roomId
            /\ \A i \in DOMAIN out' :
                  out'[i].op \in {"terminate", "close"} => out'[i].to \in Range(Unresponsive)]_vars

\* C23 witness: the heartbeat reaped a socket that had a transfer tracked; the
\* other member of its room was written the file-cancel and the room-update,
\* and stays open in the room.
C23_Witness ==
    /\ last.op = "heartbeat"
    /\ \E c, d \in Conns :
          /\ c # d
          /\ [op |-> "terminate", to |-> c] \in Range(out)
          /\ IsOpen(d) /\ ws[d].roomId # NoRoom
          /\ Members(rooms[ws[d].roomId]) = {d}
          /\ LET s == StreamTo(out, d)
             IN  /\ Len(s) = 2
                 /\ s[1].type = "file-cancel" /\ s[1].senderId = c
                 /\ s[2].type = "room-update"

\* C24: a frame that does not parse, has no string type or has an unknown
\* type, once past the rate limiter, is answered with an INVALID_MESSAGE error
\* written to its socket alone; the sockets (open, in their rooms) and the room
\* table (rosters, tracked transfers) stay as they were.
C24_ProtocolError ==
    [][(last'.op = "message" /\ last'.frame \in InvalidFrames
            /\ last'.res # "RATE_LIMITED") =>
        LET c == last'.ws
        IN  /\ last'.res = "INVALID_MESSAGE"
            /\ out' = IF IsOpen(c)
                      THEN <<[op |-> "send", to |-> c,
                              msg |-> [type |-> "error", code |-> "INVALID_MESSAGE"]]>>
                      ELSE <<>>
            /\ ws' = ws
            /\ rooms' = rooms]_vars

\* C24 witness: a member with a transfer tracked, in a room with another
\* member, sent a frame of unknown type and got the error.
C24_Witness ==
    /\ last.op = "message" /\ last.frame = [type |-> "bogus"]
    /\ last.res = "INVALID_MESSAGE"
    /\ Sent(last.ws, [type |-> "error", code |-> "INVALID_MESSAGE"])
    /\ IsOpen(last.ws) /\ ws[last.ws].roomId # NoRoom
    /\ Cardinality(Members(rooms[ws[last.ws].roomId])) = 2
    /\ Tracked(rooms[ws[last.ws].roomId], last.ws) # {}

\* the last frame announces a file: a file-start, or a clipboard message with
\* a fileId
IsFileAnnouncement(frame) ==
    \/ frame.type = "file-start"
    \/ frame.type = "clipboard" /\ Field(frame, "fileId", NoFile) # NoFile
\* an announcement of kind types from a member of a room, past the rate limiter,
\* that validateFileStart rejects, is answered with that error, relayed to
\* nobody and not recorded
RejectedAndDropped(types) ==
    (/\ last'.op = "message" /\ last'.frame.type \in types
     /\ IsFileAnnouncement(last'.frame)
     /\ last'.res # "RATE_LIMITED"
     /\ ws[last'.ws].roomId # NoRoom
     /\ validateFileStart(last'.frame) # "OK")
    => /\ last'.res = validateFileStart(last'.frame)
       /\ out' = IF IsOpen(last'.ws)
                 THEN <<[op |-> "send", to |-> last'.ws,
                         msg |-> [type |-> "error", code |-> validateFileStart(last'.frame)]]>>
                 ELSE <<>>
       /\ rooms' = rooms

\* C25: a file announcement (file-start, or clipboard with a fileId) whose
\* fileSize is over the maximum, whose fileName is too long or whose fileId is
\* no string is answered with the validation error, not relayed and not
\* recorded in activeTransfers.
C25_AnnouncementValidated == [][RejectedAndDropped({"file-start", "clipboard"})]_vars

\* C25, for file-start frames alone.
C25_FileStartValidated == [][RejectedAndDropped({"file-start"})]_vars

\* C25 witness: a clipboard announcement with a fileSize over the maximum was
\* relayed to the other member and its fileId is tracked.
C25_Witness ==
    /\ last.op = "message" /\ last.frame.type = "clipboard" /\ last.res = "relayed"
    /\ Field(last.frame, "fileId", NoFile) # NoFile
    /\ last.frame.fileSize > MAX_FILE_SIZE
    /\ RelayedTo # {}
    /\ last.frame.fileId \in Tracked(rooms[ws[last.ws].roomId], last.ws)

\* the last frame is the chunk that ends its transfer
IsFinalChunk(frame) ==
    frame.type = "file-chunk" /\ frame.chunkIndex = frame.totalChunks - 1
\* a frame with a fileId was relayed in this step
RelaysFile ==
    /\ last'.op = "message" /\ last'.res = "relayed"
    /\ Field(last'.frame, "fileId", NoFile) # NoFile

\* C26: a relayed message with a fileId (file-start, clipboard announcement or
\* file-chunk) leaves the fileId tracked for its sender in its room, unless it
\* is the chunk with chunkIndex = totalChunks - 1, which leaves it untracked.
C26_TrackedUntilFinalChunk ==
    [][RelaysFile =>
        LET c == last'.ws
            tracked == Tracked(rooms'[ws[c].roomId], c)
        IN  IF IsFinalChunk(last'.frame)
            THEN last'.frame.fileId \notin tracked
            ELSE last'.frame.fileId \in tracked]_vars

\* C26, with tracking started by announcements only: an announcement leaves
\* its fileId tracked, the final chunk leaves it untracked, and any other
\* chunk leaves the sender's tracked set as it was.
C26_AnnouncedTrackedUntilFinalChunk ==
    [][RelaysFile =>
        LET c == last'.ws
            before == Tracked(rooms[ws[c].roomId], c)
            tracked == Tracked(rooms'[ws[c].roomId], c)
        IN  IF IsFinalChunk(last'.frame)
            THEN tracked = before \ {last'.frame.fileId}
            ELSE IF last'.frame.type = "file-chunk"
            THEN tracked = before
            ELSE tracked = before \cup {last'.frame.fileId}]_vars

\* C26 witness: the first chunk of a transfer that was never announced was
\* relayed to the other member, and its fileId is not tracked.
C26_Witness ==
    /\ last.op = "message" /\ last.res = "relayed"
    /\ last.frame.type = "file-chunk" /\ last.frame.chunkIndex = 0
    /\ RelayedTo # {}
    /\ Tracked(rooms[ws[last.ws].roomId], last.ws) = {}

\* C27: within a room no fileId is tracked under two different sockets.
C27_OneSenderPerFile ==
    \A r \in DOMAIN rooms : \A c, d \in Conns :
        c # d => Tracked(rooms[r], c) \cap Tracked(rooms[r], d) = {}

\* C27, per socket: the tracked file ids of one socket hold no fileId twice.
C27_OncePerSender ==
    \A r \in DOMAIN rooms : \A c \in DOMAIN rooms[r].activeTransfers :
        LET ids == rooms[r].activeTransfers[c]
        IN  \A i, j \in DOMAIN ids : ids[i] = ids[j] => i = j

\* C27 witness: both members of a room announced the same fileId, and it is
\* tracked under each of them.
C27_Witness ==
    \E r \in DOMAIN rooms : \E c, d \in Members(rooms[r]) :
        /\ c # d
        /\ Tracked(rooms[r], c) \cap Tracked(rooms[r], d) # {}
        /\ IsAnnouncement(last) /\ last.ws = d

\* the copies of the last frame the handler wrote, as messages
RelayedCopies(o) ==
    {o[i].msg : i \in {j \in DOMAIN o : o[j].op = "send" /\ o[j].msg.type \in RelayTypes}}
\* message m is frame with senderId set to c and, if timed, timestamp set to
\* the relay's clock, and every other field as the client sent it
StampedBy(m, frame, c, timed) ==
    /\ DOMAIN m = DOMAIN frame \cup {"senderId"} \cup (IF timed THEN {"timestamp"} ELSE {})
    /\ m.senderId = c
    /\ timed => m.timestamp = now
    /\ \A k \in DOMAIN frame \ ({"senderId"} \cup (IF timed THEN {"timestamp"} ELSE {})) :
          m[k] = frame[k]

\* C28: every relayed copy of a clipboard or file-chunk frame has senderId set
\* to the socket that sent it and timestamp set by the relay, whatever the
\* client put there, and every other field as the client sent it.
C28_Stamped ==
    [][(last'.op = "message" /\ last'.frame.type \in {"clipboard", "file-chunk"}) =>
        \A m \in RelayedCopies(out') : StampedBy(m, last'.frame, last'.ws, TRUE)]_vars

\* C28, as the handlers stamp: senderId on both, timestamp on clipboard only;
\* a file-chunk keeps the timestamp field the client sent, if any.
C28_SenderStamped ==
    [][(last'.op = "message" /\ last'.frame.type \in {"clipboard", "file-chunk"}) =>
        \A m \in RelayedCopies(out') :
            StampedBy(m, last'.frame, last'.ws, last'.frame.type = "clipboard")]_vars

\* C28 witness: a file-chunk was relayed to the other member with the senderId
\* of its sender and without a timestamp.
C28_Witness ==
    /\ last.op = "message" /\ last.frame.type = "file-chunk" /\ last.res = "relayed"
    /\ RelayedCopies(out) # {}
    /\ \A m \in RelayedCopies(out) : m.senderId = last.ws /\ "timestamp" \notin DOMAIN m

\* the updates the step hands to the receiver's collaborator
NewUpdates == SubSeq(updates', Len(updates) + 1, Len(updates'))
\* the receiver holds a slot array for file f with at least one slot filled
HoldsPartial(f) ==
    /\ f \in DOMAIN incomingFiles
    /\ filledCount(incomingFiles[f].chunks) >= 1
\* the step is the receiver's onMessage for a message of one of the types
GetsMessage(types) ==
    /\ arrived'.got.type \in types
    /\ \/ arrived'.got # arrived.got
       \/ updates' # updates
       \/ incomingFiles' # incomingFiles
FailedSignal(f, u) == u.type = "file-error" /\ u.fileId = f

\* C29: when a file-cancel or an error that names a file arrives while the
\* receiver holds partial chunks of that file, the receiver drops the slot
\* array of the file and hands its collaborator a file-error for it.
C29_CancelDiscards ==
    [][(/\ GetsMessage({"file-cancel", "error"})
        /\ HoldsPartial(arrived'.got.fileId))
       => /\ arrived'.got.fileId \notin DOMAIN incomingFiles'
          /\ Len(NewUpdates) = 1
          /\ FailedSignal(arrived'.got.fileId, NewUpdates[1])]_vars

\* C29, as onMessage does it: an error that names the file drops the slot
\* array and is surfaced as a file-error; a file-cancel changes nothing.
C29_ErrorDiscards ==
    [][/\ (GetsMessage({"error"}) /\ HoldsPartial(arrived'.got.fileId))
          => /\ arrived'.got.fileId \notin DOMAIN incomingFiles'
             /\ Len(NewUpdates) = 1
             /\ FailedSignal(arrived'.got.fileId, NewUpdates[1])
       /\ GetsMessage({"file-cancel"})
          => incomingFiles' = incomingFiles /\ updates' = updates]_vars

\* C29 witness: the uploader has left mid-transfer, its file-cancel has been
\* handled by the receiver, and the receiver still holds the partial slot array
\* and has surfaced no file-error.
C29_Witness ==
    /\ upload.stage = "left"
    /\ arrived.got = [type |-> "file-cancel", fileId |-> UploadFileId, senderId |-> Uploader]
    /\ HoldsPartial(UploadFileId)
    /\ \A i \in DOMAIN updates : updates[i].type # "file-error"

\* the step is handleFileChunk of the receiver taking a chunk into a slot
AcceptsChunk == arrived'.got.type = "file-chunk" /\ updates' # updates
ProgressOf(f, u) == u.type = "file-progress" /\ u.fileId = f

\* C30: every chunk the receiver takes is followed by a file-progress whose
\* value is the filled slots over totalChunks (as a percentage) and is not below
\* any earlier one of the file; the step ends the transfer exactly if it fills
\* the last empty slot: then the slot array is dropped and one file-complete
\* with the reassembled bytes is handed over, or one file-error if the parts do
\* not decode; no file gets a second file-complete.
C30_Reassembly ==
    [][AcceptsChunk =>
        LET m == arrived'.got
            f == m.fileId
            slots == arraySet(incomingFiles[f].chunks, m.chunkIndex, m.chunk)
            total == incomingFiles[f].metadata.totalChunks
            filled == Cardinality({i \in DOMAIN slots : slots[i] # Hole})
        IN  /\ f \in DOMAIN incomingFiles
            /\ NewUpdates[1] = [type |-> "file-progress", fileId |-> f,
                                progress |-> [num |-> filled * 100, den |-> total]]
            /\ \A i \in DOMAIN updates :
                  ProgressOf(f, updates[i]) =>
                      updates[i].progress.num * total <= filled * 100 * updates[i].progress.den
            /\ IF filled = total
               THEN /\ f \notin DOMAIN incomingFiles'
                    /\ Len(NewUpdates) = 2
                    /\ IF \E i \in DOMAIN slots : atobThrows(slots[i])
                       THEN FailedSignal(f, NewUpdates[2])
                       ELSE NewUpdates[2] = [type |-> "file-complete", fileId |-> f,
                                             content |-> Blob(slots)]
               ELSE /\ Len(NewUpdates) = 1
                    /\ f \in DOMAIN incomingFiles'
                    /\ incomingFiles'[f].chunks = slots
            /\ Cardinality({i \in DOMAIN updates' :
                              updates'[i].type = "file-complete" /\ updates'[i].fileId = f}) <= 1]_vars

\* C30 witness: a file of more than one chunk has been completed: the progress
\* rose to 100, one file-complete with the file followed, and the slot array
\* is gone.
C30_Witness ==
    /\ totalChunksOf(file) >= 2
    /\ arrived.got.type = "file-chunk"
    /\ Len(updates) >= 3
    /\ updates[Len(updates)] = [type |-> "file-complete", fileId |-> UploadFileId,
                                content |-> file]
    /\ updates[Len(updates) - 1].progress = [num |-> totalChunksOf(file) * 100,
                                             den |-> totalChunksOf(file)]
    /\ updates[1].progress.num < updates[1].progress.den * 100
    /\ UploadFileId \notin DOMAIN incomingFiles


\* the sockets the heartbeat tick visits
Visited(c) == c \in Range(wssClients(State))
\* socket d was written a room-update of room r whose roster lacks c, after
\* the file-cancel of every transfer in fs
ToldOfDeparture(o, d, r, c, fs) ==
    LET s == StreamTo(o, d)
    IN  \E u \in DOMAIN s :
          /\ s[u].type = "room-update" /\ s[u].roomId = r
          /\ \A k \in DOMAIN s[u].clients : s[u].clients[k].id # c
          /\ \A f \in fs : \E i \in 1..(u - 1) : s[i] = FileCancel(f, c)

\* C31: at a heartbeat tick a socket whose isAlive is still false (pinged at
\* the tick before, no pong since) is taken off its roster, the members that
\* remain are written the file-cancels of its transfers and the room-update
\* without it, and it is terminated; a socket whose isAlive is true is pinged
\* and keeps its room.  A pong sets isAlive, and only the ping of a tick or the
\* socket's own close clears it, so a socket that answers every ping before
\* the next tick is never reaped by the heartbeat.
C31_Heartbeat ==
    /\ [][last'.op = "heartbeat" =>
            \A c \in Conns : Visited(c) =>
                IF ws[c].isAlive = FALSE
                THEN /\ [op |-> "terminate", to |-> c] \in Range(out')
                     /\ ws'[c].destroyed /\ ws'[c].roomId = NoRoom
                     /\ \A r \in DOMAIN rooms' : c \notin Members(rooms'[r])
                     /\ LET r == ws[c].roomId
                        IN  (r # NoRoom /\ r \in DOMAIN rooms') =>
                              \A d \in Members(rooms'[r]) :
                                 ws'[d].readyState = "OPEN" =>
                                    ToldOfDeparture(out', d, r, c, Tracked(rooms[r], c))
                ELSE /\ [op |-> "terminate", to |-> c] \notin Range(out')
                     /\ ws[c].readyState = "OPEN" => [op |-> "ping", to |-> c] \in Range(out')
                     /\ ws'[c] = [ws[c] EXCEPT !.isAlive = FALSE]
                     /\ ws[c].roomId # NoRoom => c \in Members(rooms'[ws[c].roomId])]_vars
    /\ [][last'.op = "pong" => ws'[last'.ws].isAlive = TRUE]_vars
    /\ [][\A c \in Conns :
            (ws[c].isAlive = TRUE /\ ws'[c].isAlive = FALSE) =>
                \/ last'.op = "heartbeat" /\ [op |-> "ping", to |-> c] \in Range(out')
                \/ last'.op = "close" /\ last'.ws = c]_vars

\* C31 witness: at one tick a socket that had not answered was reaped while
\* the other member of its room, which had answered, was pinged, told of the
\* cancelled transfer and of the departure, and stays in the room.
C31_Witness ==
    /\ last.op = "heartbeat"
    /\ \E c, d \in Conns :
          /\ c # d
          /\ [op |-> "terminate", to |-> c] \in Range(out)
          /\ [op |-> "ping", to |-> d] \in Range(out)
          /\ [op |-> "terminate", to |-> d] \notin Range(out)
          /\ ws[c].destroyed
          /\ IsOpen(d) /\ ws[d].roomId # NoRoom /\ ~ws[d].isAlive
          /\ Members(rooms[ws[d].roomId]) = {d}
          /\ \E f \in FileIds : ToldOfDeparture(out, d, ws[d].roomId, c, {f})


\* the handler wrote a reload message to socket c
SentReload(o, c) ==
    \E i \in DOMAIN o : o[i].op = "send" /\ o[i].to = c /\ o[i].msg.type = "reload"

\* C32: the relay never writes a reload message to a socket that has sent a
\* create or a join.
C32_NoReload ==
    (last.op = "message" /\ last.frame.type \in {"create", "join"})
        => \A c \in Conns : ~SentReload(out, c)

\* C32, for joins: a join, accepted or rejected, is never answered with reload.
C32_JoinNoReload ==
    (last.op = "message" /\ last.frame.type = "join")
        => \A c \in Conns : ~SentReload(out, c)

\* C32 witness: a create was answered with the room-update of the new room and
\* then a reload, written to the creator.
C32_Witness ==
    /\ last.op = "message" /\ last.frame.type = "create" /\ last.res = "created"
    /\ LET s == StreamTo(out, last.ws)
       IN  /\ Len(s) = 2
           /\ s[1].type = "room-update" /\ s[1].roomId = ws[last.ws].roomId
           /\ s[2] = [type |-> "reload"]
    /\ Members(rooms[ws[last.ws].roomId]) = {last.ws}


\* the rooms that have socket c on their roster
RoomsOf(rs, c) == {r \in DOMAIN rs : c \in Members(rs[r])}
\* the handler recorded event a before event b
Before(ev, a, b) == \E i, j \in DOMAIN ev : i < j /\ ev[i] = a /\ ev[j] = b
\* the step is an accepted join or create by a socket that is on the roster
\* of room r
MovesFrom(c, r) ==
    /\ last'.op = "message" /\ last'.ws = c
    /\ last'.frame.type \in {"join", "create"}
    /\ last'.res \in {"joined", "created"}
    /\ r = ws[c].roomId /\ r \in DOMAIN rooms /\ c \in Members(rooms[r])

\* C33: no socket is on the roster of two rooms; an accepted join or create by
\* a socket that is in a room takes it off that roster first (the members left
\* behind are written the file-cancels and the room-update, the room is
\* deleted if it is left empty) and only then puts it on the new roster.
C33_OneRoom ==
    /\ [](\A c \in Conns : Cardinality(RoomsOf(rooms, c)) <= 1)
    /\ [][\A c \in Conns, r \in DOMAIN rooms : MovesFrom(c, r) =>
            LET new == ws'[c].roomId
                stay == Members(rooms[r]) \ {c}
            IN  /\ new # NoRoom
                /\ RoomsOf(rooms', c) = {new}
                /\ Before(last'.ev, [e |-> "leave", room |-> r, ws |-> c],
                                    [e |-> "join", room |-> new, ws |-> c])
                /\ stay = {} =>
                      /\ Before(last'.ev, [e |-> "delete", room |-> r, ws |-> c],
                                          [e |-> "join", room |-> new, ws |-> c])
                      /\ r \in DOMAIN rooms' => new = r
                /\ stay # {} =>
                      \A d \in stay :
                         ws[d].readyState = "OPEN" =>
                            ToldOfDeparture(out', d, r, c, Tracked(rooms[r], c))]_vars

\* C33 witness: a socket with a tracked transfer has joined another room; it
\* left the old room before it was added to the new one, and the member it
\* left behind was written the file-cancel and the room-update.
C33_Witness ==
    /\ last.op = "message" /\ last.frame.type = "join" /\ last.res = "joined"
    /\ \E r \in DOMAIN rooms, d \in Conns, f \in FileIds :
          /\ r # ws[last.ws].roomId
          /\ Before(last.ev, [e |-> "leave", room |-> r, ws |-> last.ws],
                             [e |-> "join", room |-> ws[last.ws].roomId, ws |-> last.ws])
          /\ Members(rooms[r]) = {d}
          /\ ToldOfDeparture(out, d, r, last.ws, {f})
          /\ RoomsOf(rooms, last.ws) = {ws[last.ws].roomId}


\* socket c counts as in a room: its roomId field is set
InARoom(c) == ws[c].roomId # NoRoom
\* the roomId field of socket c names a room of the table that has c on its roster
NamesOwnRoom(c) ==
    /\ ws[c].roomId \in DOMAIN rooms
    /\ c \in Members(rooms[ws[c].roomId])

\* C34: the roomId field of a socket names a room only if that room is in the
\* table and has the socket on its roster.
C34_RoomIdIsMembership ==
    \A c \in Conns : InARoom(c) => NamesOwnRoom(c)

\* C34, for the sockets the relay has not started to close: an open socket's
\* roomId names a room of the table with the socket on its roster.
C34_OpenRoomIdIsMembership ==
    \A c \in Conns : (InARoom(c) /\ IsOpen(c)) => NamesOwnRoom(c)

\* C34 witness: the idle sweep has just deleted a room and called close() on
\* its member, whose roomId still names the deleted room.
C34_Witness ==
    /\ last.op = "sweep"
    /\ \E c \in Conns :
          /\ InARoom(c)
          /\ ws[c].roomId \notin DOMAIN rooms
          /\ ws[c].readyState = "CLOSING"
          /\ [op |-> "close", to |-> c] \in Range(out)


\* the step is a join answered with one of the codes
JoinRejected(codes) == IsJoin(last') /\ last'.res \in codes
\* the handler changed neither the room table nor the sockets, and wrote
\* nothing but the error to the sender
OnlyError(code) ==
    /\ rooms' = rooms
    /\ ws' = ws
    /\ \A i \in DOMAIN out' :
          out'[i] = [op |-> "send", to |-> last'.ws,
                     msg |-> [type |-> "error", code |-> code]]

\* C35: a join answered with ROOM_FULL, INVALID_ROOM_ID or ROOM_ID_REQUIRED
\* leaves the room table and every socket's room as they were, and nothing but
\* the error is written.
C35_RejectedJoinNoChange ==
    [][JoinRejected({"ROOM_FULL", "INVALID_ROOM_ID", "ROOM_ID_REQUIRED"})
        => OnlyError(last'.res)]_vars

\* C35, as handleJoin orders its tests: a join with a bad id changes nothing;
\* a join answered ROOM_FULL changes nothing if the sender was in no room, and
\* otherwise has taken the sender out of its room.
C35_BadIdNoChange ==
    [][/\ JoinRejected({"INVALID_ROOM_ID", "ROOM_ID_REQUIRED"}) => OnlyError(last'.res)
       /\ (JoinRejected({"ROOM_FULL"}) /\ ws[last'.ws].roomId = NoRoom)
             => OnlyError("ROOM_FULL")
       /\ (JoinRejected({"ROOM_FULL"}) /\ ws[last'.ws].roomId # NoRoom)
             => /\ ws'[last'.ws].roomId = NoRoom
                /\ RoomsOf(rooms', last'.ws) = {}]_vars

\* C35 witness: a socket that was alone in a room asked to join a full room:
\* it was answered ROOM_FULL, is in no room any more, and its old room is gone.
C35_Witness ==
    /\ IsJoin(last) /\ last.res = "ROOM_FULL"
    /\ \E r \in GenRoomIds :
          /\ Before(last.ev, [e |-> "leave", room |-> r, ws |-> last.ws],
                             [e |-> "delete", room |-> r, ws |-> last.ws])
          /\ r \notin DOMAIN rooms
    /\ ws[last.ws].roomId = NoRoom
    /\ RoomsOf(rooms, last.ws) = {}
    /\ Sent(last.ws, [type |-> "error", code |-> "ROOM_FULL"])


\* the relay tracks file f for socket c in some room
RelayTracks(c, f) == \E r \in DOMAIN rooms : f \in Tracked(rooms[r], c)
\* the announcement of the upload was relayed to the receiver's socket
AnnouncementRelayed == \E m \in wire : m.type = "clipboard"
\* the upload has come to its end on both sides
UploadSettled ==
    /\ ~RelayTracks(Uploader, UploadFileId)
    /\ AnnouncementRelayed =>
          Completions = <<[type |-> "file-complete", fileId |-> UploadFileId,
                           content |-> file]>>
\* the close event of the uploader after its upload ran to the end
ClosesAfterUpload == last'.op = "close" /\ last'.ws = Uploader /\ upload.stage = "done"
NoCancelWritten ==
    \A i \in DOMAIN out' : out'[i].op = "send" => out'[i].msg.type # "file-cancel"

\* C36: an upload of any file, the empty one included, that has run to its end
\* is followed by a state in which the relay does not track its fileId and the
\* receiver that was relayed the announcement has its file-complete; and when
\* the uploader disconnects after such an upload, no file-cancel is written.
C36_UploadEnds ==
    /\ (upload.stage = "done") ~> UploadSettled
    /\ [][ClosesAfterUpload => NoCancelWritten]_vars

\* C36, for files of at least one byte.
C36_NonEmptyUploadEnds ==
    /\ (upload.stage = "done" /\ Len(file) >= 1) ~> UploadSettled
    /\ [][(ClosesAfterUpload /\ Len(file) >= 1) => NoCancelWritten]_vars

\* C36 witness: the upload of an empty file has run to its end and its uploader
\* has disconnected: the relay tracked the fileId until then, the receiver was
\* written a file-cancel, and it holds a slot array with no file-complete.
C36_Witness ==
    /\ file = <<>>
    /\ upload.stage = "done"
    /\ last.op = "close" /\ last.ws = Uploader
    /\ Sent(UploadReceiver, FileCancel(UploadFileId, Uploader))
    /\ arrived.announced
    /\ UploadFileId \in DOMAIN incomingFiles
    /\ Completions = <<>>


\* ---------------------------------------------------------------- C37
\* a step in which the hook constructs a WebSocket: ws.current is a socket
\* that is connecting and was not before
OpensSocket == socket.readyState # "CONNECTING" /\ socket'.readyState = "CONNECTING"

\* the step that tears the session down
TearsDown == mounted /\ ~mounted'

\* C37: after the cleanup of the connect effect has run at unmount, the hook
\* constructs no further WebSocket.
C37_NoConnectAfterTeardown == [][~mounted => ~OpensSocket]_vars

\* What holds: the cleanup leaves no timer pending and a socket that is closing
\* or closed, and while the component is mounted a socket is constructed only
\* by the effect or by the timer of a close.
C37_TeardownClearsTimer ==
    [][TearsDown => /\ ~reconnectTimeout'.pending
                    /\ socket'.readyState \in {"CLOSING", "CLOSED"}]_vars

\* the unmounted hook holds a socket that is open at the relay: the close
\* event of the socket the cleanup closed set the timer, the timer connected
C37_Witness ==
    /\ ~mounted
    /\ socket.readyState = "OPEN"
    /\ ws[socket.conn].readyState = "OPEN"
    /\ \E c \in probe.mine \ {socket.conn} : ws[c].readyState = "CLOSED"


\* ---------------------------------------------------------------- C38
\* the page shows the session of its open socket as it is: connected, and no
\* reconnect attempts counted
ShowsOpenSession == roomState.connected /\ reconnectAttempt = 0

CurrentOpen == mounted /\ socket.readyState = "OPEN"

\* C38: while the current socket is open the page shows connected and counts
\* no reconnect attempt, also when the socket has replaced another one whose
\* close event arrives late.
C38_ReplacedCloseHarmless == CurrentOpen => ShowsOpenSession

\* What holds: the open of the current socket sets connected and clears the
\* counter, and an open session is shown other than it is only by the close
\* event of a replaced socket.
C38_OnlyReplacedCloseHarms ==
    [][/\ (socket.readyState = "CONNECTING" /\ CurrentOpen') => ShowsOpenSession'
       /\ (CurrentOpen /\ ShowsOpenSession /\ CurrentOpen' /\ ~ShowsOpenSession')
              => (stale' # stale /\ stale' \subseteq stale)]_vars

\* the replaced socket's close event has arrived after the open of the socket
\* that replaced it: the socket is open at the relay, the page shows
\* disconnected and counts an attempt
C38_Witness ==
    /\ CurrentOpen
    /\ ws[socket.conn].readyState = "OPEN"
    /\ stale = {}
    /\ ~roomState.connected
    /\ reconnectAttempt = 1
    /\ reconnectTimeout.pending


\* ---------------------------------------------------------------- C39
\* the create and join frames of the page the relay has not handled yet
Unanswered ==
    IF socket.conn = NoConn THEN 0
    ELSE Len(SelectSeq(inbound[socket.conn],
                       LAMBDA f : parseFrame(f).type \in {"create", "join"}))

\* the relay has handled the frame of the p-th promise and its reply has been
\* delivered to the page
Answered(p) == p \in DOMAIN promises /\ p <= Len(promises) - Unanswered

Settled(p) == p \in DOMAIN promises /\ promises[p].settled

\* this step delivers the reply to the frame of the p-th promise
AnswersNow(p) == p \in DOMAIN promises /\ ~Answered(p) /\ Answered(p)'

\* this step resolves the p-th promise, a joinRoom promise, with false
ResolvesFalse(p) ==
    /\ p \in DOMAIN promises /\ p \in DOMAIN promises'
    /\ promises[p].kind = "join"
    /\ ~promises[p].settled
    /\ promises'[p].settled /\ promises'[p].value = FALSE

\* C39: a createRoom or joinRoom promise is resolved once the relay's reply to
\* its frame has been delivered (or the page is gone), and a joinRoom promise
\* is resolved with false only by the reply to its own join, an error.
C39_PromisesSettle ==
    /\ \A p \in 1..MaxPromises : Answered(p) ~> (p \notin DOMAIN promises \/ Settled(p))
    /\ [][\A p \in 1..MaxPromises :
            ResolvesFalse(p) => (AnswersNow(p) /\ last'.res # "joined")]_vars

\* What holds: the joinRoom promise whose resolve the ref holds when the reply
\* to its join is delivered is resolved by that reply, with true exactly if the
\* join was accepted.
C39_PendingJoinSettles ==
    [][\A p \in 1..MaxPromises :
          (AnswersNow(p) /\ pendingRoomJoin = p)
              => /\ Settled(p)'
                 /\ promises'[p].value = (last'.res = "joined")]_vars

\* the relay has just accepted the join of the page's latest joinRoom call and
\* the page is on the roster, yet that promise was resolved with false by the
\* error reply to an earlier frame, whose own promise is still pending
C39_Witness ==
    /\ socket.readyState = "OPEN"
    /\ last.res = "joined" /\ last.ws = socket.conn
    /\ ws[socket.conn].roomId # NoRoom
    /\ LET p == Len(promises)
       IN  /\ p > 1
           /\ promises[p].kind = "join"
           /\ Answered(p)
           /\ Settled(p) /\ promises[p].value = FALSE
           /\ \E q \in 1..(p - 1) : Answered(q) /\ ~Settled(q)


\* ---------------------------------------------------------------- C40
\* the connections that were accepted and whose close event has not been
\* handled
OpenConnections == {c \in Conns : ws[c].readyState \in {"OPEN", "CLOSING"}}

\* C40: metrics.activeConnections is the number of accepted connections whose
\* close has not been handled; it is never negative.
C40_ActiveConnections ==
    /\ metrics.activeConnections = Cardinality(OpenConnections)
    /\ metrics.activeConnections >= 0

\* What holds: the metric counts events.  A connection adds one, a close event
\* subtracts one, a heartbeat tick subtracts one for every socket it finds
\* unresponsive, and nothing else changes it; so it never exceeds the number of
\* open connections.
C40_CountsEvents ==
    /\ [](metrics.activeConnections <= Cardinality(OpenConnections))
    /\ [][metrics'.activeConnections - metrics.activeConnections =
            IF last' = last THEN 0
            ELSE CASE last'.op = "connection" -> 1
                   [] last'.op = "close" -> 0 - 1
                   [] last'.op = "heartbeat" -> 0 - Len(Unresponsive)
                   [] OTHER -> 0]_vars

\* a socket was reaped by the heartbeat and its close event has been handled:
\* no connection is open and the metric is below zero
C40_Witness ==
    /\ OpenConnections = {}
    /\ \E c \in Conns : ws[c].readyState = "CLOSED"
    /\ metrics.activeConnections < 0

====
